---- MODULE Spec2Model ----
(***************************************************************************)
(* Model of the website-verification pipeline of the Szczecin business     *)
(* scraper: WebsiteChecker.check_website (scrapers/website_checker.py),    *)
(* the validity classifier is_valid_website (utils/validators.py) and the  *)
(* scan orchestration that consumes them (main.py, webapp/app.py).         *)
(*                                                                         *)
(* Strings are modelled as sequences of atomic fragments: a URL is a       *)
(* record of its textual parts, an HTTP body a sequence of text fragments. *)
(* Substring search ("x in s", re.search) is containment of a fragment.    *)
(***************************************************************************)
EXTENDS Integers, Sequences, FiniteSets, TLC

VARIABLES
    cw_pc,        \* position inside one check_website call
    cw_arg,       \* the url argument of the call
    cw_url,       \* the local variable url after _normalize_url
    cw_resp,      \* the response object held by the call
    cw_log,       \* network operations issued by the call, in order
    cw_result,    \* value returned by the call
    mode,         \* which orchestrator runs: "cli" (main.py) or "web" (app.py)
    verify_websites,  \* SzczecinBusinessScraper.verify_websites
    sources,      \* names of the configured scrapers, in dict order
    phase,        \* position of the orchestrator
    ind,          \* index of the industry being scanned
    src,          \* index of the source being scanned (cli)
    yielded,      \* results yielded by the current search_businesses call
    seen_names,   \* seen_names
    industry_businesses,  \* local list of _scan_industry (cli)
    all_businesses,       \* all_businesses / job.businesses
    vi,           \* loop index of the verification loop
    verify_log,   \* per verified business: what its liveness check did
    businesses_without_website,
    search_raised,    \* whether a search_businesses call of the scan has raised
    ex_text,      \* text handed to the extractor under test
    ex_fn,        \* which extractor the process calls
    ex_out,       \* lists returned by the calls made so far, in call order
    ex_order,     \* iteration order of the phone set under this process's hash seed
    as_scraper,   \* which scraper assembles the record
    as_card,      \* the listing card (or place) the record is assembled from
    as_detail,    \* the detail page behind the card, NoPage when it cannot be had
    as_pc,        \* position of the assembly
    biz,          \* the record under assembly
    as_result,    \* what became of the record: "kept", "dropped" or "skipped"
    sb_mode,      \* who combines the results: "api" (scan.py), "cli" or "web"
    sb_max,       \* max_results
    sb_candidates,    \* the records the scrapers returned, in the order they are read
    sb_i,         \* index of the candidate the loop is at
    sb_seen_phones,   \* seen_phones
    sb_seen_names,    \* seen_names
    sb_all,       \* all_businesses (industry_businesses, job.businesses)
    sb_kept,      \* indices of the candidates appended so far
    sb_pc,        \* position in the combining code
    pf_mode,      \* the orchestrator that runs the search: "cli" or "web"
    pf_max,       \* max_results of the search_businesses call
    pf_page,      \* page
    pf_results_count, \* results_count
    pf_links,     \* the links of the current listing page not yet visited
    pf_next_link, \* whether the current listing page has a next-page link
    pf_fetched,   \* listing pages fetched by the call so far
    pf_websites,  \* per yielded business: whether it has a website on record
    pf_vi,        \* loop index of the verification loop
    pf_pc,        \* position of the run
    net_last,     \* the last thing the run did to the network: "fetch" or "delay"
    net_back_to_back, \* whether two fetches were issued with no delay in between
    scan_jobs,    \* per job id the ScanJob; status "none" while the id is unused
    run_pc,       \* per job id the position of its thread inside run_scan
    total_industries, \* per job id len(job.industries) while the loop over it runs
    run_idx,      \* per job id idx, the index of the industry being scanned
    run_i,        \* per job id i, the loop index of the verification loop
    actor,        \* who took the last step: a request handler, or run_scan of a job
    reply         \* the response the last request handler returned

cwVars == <<cw_pc, cw_arg, cw_url, cw_resp, cw_log, cw_result>>
scanVars == <<mode, verify_websites, sources, phase, ind, src, yielded,
              seen_names, industry_businesses, all_businesses, vi,
              verify_log, businesses_without_website, search_raised>>
exVars == <<ex_text, ex_fn, ex_out, ex_order>>
asVars == <<as_scraper, as_card, as_detail, as_pc, biz, as_result>>
sbVars == <<sb_mode, sb_max, sb_candidates, sb_i, sb_seen_phones, sb_seen_names,
            sb_all, sb_kept, sb_pc>>
pfVars == <<pf_mode, pf_max, pf_page, pf_results_count, pf_links, pf_next_link,
            pf_fetched, pf_websites, pf_vi, pf_pc, net_last, net_back_to_back>>
jobVars == <<scan_jobs, run_pc, total_industries, run_idx, run_i, actor, reply>>
vars == <<cw_pc, cw_arg, cw_url, cw_resp, cw_log, cw_result,
          mode, verify_websites, sources, phase, ind, src, yielded,
          seen_names, industry_businesses, all_businesses, vi,
          verify_log, businesses_without_website, search_raised,
          ex_text, ex_fn, ex_out, ex_order,
          as_scraper, as_card, as_detail, as_pc, biz, as_result,
          sb_mode, sb_max, sb_candidates, sb_i, sb_seen_phones, sb_seen_names,
          sb_all, sb_kept, sb_pc,
          pf_mode, pf_max, pf_page, pf_results_count, pf_links, pf_next_link,
          pf_fetched, pf_websites, pf_vi, pf_pc, net_last, net_back_to_back,
          scan_jobs, run_pc, total_industries, run_idx, run_i, actor, reply>>
\* what the actions of one operation leave alone
nonCwVars == <<scanVars, exVars, asVars, sbVars, pfVars, jobVars>>
nonScanVars == <<cwVars, exVars, asVars, sbVars, pfVars, jobVars>>
nonExVars == <<cwVars, scanVars, asVars, sbVars, pfVars, jobVars>>
nonAsVars == <<cwVars, scanVars, exVars, sbVars, pfVars, jobVars>>
nonSbVars == <<cwVars, scanVars, exVars, asVars, pfVars, jobVars>>
nonPfVars == <<cwVars, scanVars, exVars, asVars, sbVars, jobVars>>
nonJobVars == <<cwVars, scanVars, exVars, asVars, sbVars, pfVars>>

----------------------------------------------------------------------------
(* Bounds *)

MaxBodyLen == 2      \* fragments in one HTTP body
MaxIndustries == 2   \* industries of one scan
MaxResults == 2      \* max_results of one search_businesses call

----------------------------------------------------------------------------
(* URLs *)

Pads == {"", " "}
Schemes == {"", "http://", "https://"}
Hosts == { <<"bakery.pl">>, <<"gone.pl">>, <<"a..pl">>,
           <<"facebook.com">>, <<"m.", "facebook.com">> }
Ports == {"", ":8080"}
Paths == { <<>>, <<"/oferta">>, <<"/share?u=", "facebook.com">> }

\* the empty string
EmptyUrl == [pad |-> "", scheme |-> "", host |-> <<>>, port |-> "", path |-> <<>>]
\* a string of whitespace only
BlankUrl == [pad |-> " ", scheme |-> "", host |-> <<>>, port |-> "", path |-> <<>>]

UrlInputs ==
    {EmptyUrl, BlankUrl} \cup
    [pad : Pads, scheme : Schemes, host : Hosts, port : Ports, path : Paths]

\* str.strip()
strip(u) == [u EXCEPT !.pad = ""]

_normalize_url(u) ==
    LET s == strip(u) IN
    IF s = EmptyUrl THEN EmptyUrl
    ELSE IF s.scheme = "" THEN [s EXCEPT !.scheme = "https://"]
    ELSE s

\* urlparse(url).netloc: the authority part, present only after a scheme
netloc(u) ==
    IF u.scheme = "" THEN [host |-> <<>>, port |-> ""]
    ELSE [host |-> u.host, port |-> u.port]

\* urlparse(url).path.split('/')[0]: with no scheme the whole string is the
\* path, and its first segment is everything before the first '/'. When the
\* input has a ':' before its port, urlparse reads the host name in front of
\* it as the scheme, and the path begins with the port number.
first_path_segment(u) ==
    IF u.scheme # "" THEN [host |-> <<>>, port |-> ""]
    ELSE IF u.port # "" THEN [host |-> <<>>, port |-> u.port]
    ELSE [host |-> u.host, port |-> ""]

excluded_domains ==
    { "facebook.com", "fb.com", "instagram.com", "twitter.com", "x.com",
      "linkedin.com", "youtube.com", "tiktok.com", "google.com", "google.pl",
      "panoramafirm.pl", "pkt.pl", "aleo.com", "gowork.pl", "olx.pl",
      "allegro.pl", "zumi.pl", "yelp.com", "tripadvisor.", "booking.com" }

is_valid_website(u) ==
    IF u = EmptyUrl THEN FALSE
    ELSE LET n == netloc(u)
             domain == IF n.host # <<>> \/ n.port # "" THEN n
                       ELSE first_path_segment(u)
         IN ~ \E i \in DOMAIN domain.host : domain.host[i] \in excluded_domains

----------------------------------------------------------------------------
(* The network *)

ResolvingHosts == { <<"bakery.pl">>, <<"facebook.com">>, <<"m.", "facebook.com">> }
MalformedHosts == { <<"a..pl">> }

\* socket.gethostbyname(domain): the argument is the whole netloc
gethostbyname(n) ==
    IF n.host \in MalformedHosts THEN "UnicodeError"
    ELSE IF n.port = "" /\ n.host \in ResolvingHosts THEN "ok"
    ELSE "gaierror"

StatusCodes == {200, 399, 400, 503}
Fragments == { "Domain for sale. Contact owner.", "LOREM IPSUM", "<div>",
               "text49", "text50", "text100" }

RECURSIVE SeqsUpTo(_, _)
SeqsUpTo(S, n) ==
    IF n = 0 THEN { <<>> }
    ELSE LET shorter == SeqsUpTo(S, n - 1)
         IN shorter \cup { Append(s, x) : s \in { t \in shorter : Len(t) = n - 1 }, x \in S }

Bodies == SeqsUpTo(Fragments, MaxBodyLen)

Exc(kind, msg) == [kind |-> kind, status_code |-> 0, text |-> <<>>, msg |-> msg]
Response(code, text) == [kind |-> "response", status_code |-> code, text |-> text, msg |-> ""]
NoResp == [kind |-> "none", status_code |-> 0, text |-> <<>>, msg |-> ""]

Responses == { Response(c, t) : c \in StatusCodes, t \in Bodies }
Failures == { Exc("Timeout", "timed out"), Exc("SSLError", "certificate verify failed"),
              Exc("ConnectionError", "connection refused"),
              Exc("Exception", "Exceeded 30 redirects.") }
GetOutcomes == Responses \cup Failures

----------------------------------------------------------------------------
(* Content heuristics *)

MinVisibleText == 100
HttpErrorFrom == 400

\* str.lower()
lower(f) == IF f = "LOREM IPSUM" THEN "lorem ipsum"
            ELSE IF f = "Domain for sale. Contact owner." THEN "domain for sale. contact owner."
            ELSE f

\* fragments (lower case) in which some PARKING_PATTERNS regex finds a match
PARKING_PATTERNS == { "domain for sale. contact owner." }
\* fragments (lower case) in which some PLACEHOLDER_PATTERNS regex finds a match
PLACEHOLDER_PATTERNS == { "lorem ipsum" }

IsTag(f) == f = "<div>"
FragLen(f) ==
    CASE f = "Domain for sale. Contact owner." -> 31
      [] f = "LOREM IPSUM" -> 11
      [] f = "<div>" -> 5
      [] f = "text49" -> 49
      [] f = "text50" -> 50
      [] f = "text100" -> 100

\* re.sub(r'<[^>]+>', '', html), then whitespace collapsed and stripped:
\* the fragments that are not tags, separated by single spaces
RECURSIVE VisibleLen(_)
VisibleLen(text) ==
    IF text = <<>> THEN 0
    ELSE LET rest == VisibleLen(Tail(text))
             f == Head(text)
         IN IF IsTag(f) THEN rest
            ELSE IF rest = 0 THEN FragLen(f)
            ELSE FragLen(f) + 1 + rest

_is_parking_page(text) ==
    \/ \E i \in DOMAIN text : lower(text[i]) \in PARKING_PATTERNS
    \/ VisibleLen(text) < MinVisibleText

_is_placeholder_page(text) ==
    \E i \in DOMAIN text : lower(text[i]) \in PLACEHOLDER_PATTERNS

----------------------------------------------------------------------------
(* WebsiteStatus and the outcomes of check_website *)

WebsiteStatus(url, exists, is_active, is_company_site, status_code, error) ==
    [kind |-> "status", url |-> url, exists |-> exists, is_active |-> is_active,
     is_company_site |-> is_company_site, status_code |-> status_code,
     error |-> error]

\* no value returned (yet)
NoStatus == [WebsiteStatus(EmptyUrl, FALSE, FALSE, FALSE, 0, "") EXCEPT !.kind = "none"]
\* the call ended by an exception of the named class leaving check_website
Raised(exc) == [WebsiteStatus(EmptyUrl, FALSE, FALSE, FALSE, 0, exc) EXCEPT !.kind = "raised"]

ERR_EMPTY == "Empty URL"
ERR_NOT_COMPANY == "Not a company website (social media or directory)"
ERR_DNS == "DNS resolution failed"
ERR_HTTP == "HTTP error"
ERR_PARKING == "Domain parking page detected"
ERR_PLACEHOLDER == "Placeholder/template page detected"
ERR_TIMEOUT == "Connection timeout"
ERR_SSL_FALLBACK == "SSL error, fallback to HTTP"
ERR_SSL == "SSL error"
ERR_CONNECTION == "Connection failed"

\* lines 141-188: the decision taken on the response of the primary request
evaluate_response(url, response) ==
    LET status_code == response.status_code IN
    IF status_code >= HttpErrorFrom
    THEN WebsiteStatus(url, FALSE, FALSE, FALSE, status_code, ERR_HTTP)
    ELSE IF _is_parking_page(response.text)
    THEN WebsiteStatus(url, TRUE, FALSE, FALSE, status_code, ERR_PARKING)
    ELSE IF _is_placeholder_page(response.text)
    THEN WebsiteStatus(url, TRUE, FALSE, FALSE, status_code, ERR_PLACEHOLDER)
    ELSE WebsiteStatus(url, TRUE, TRUE, TRUE, status_code, "")

\* the except clauses of the outer try, in their order, for an exception that
\* is not an SSLError
handle_exception(url, e) ==
    IF e.kind = "Timeout"
    THEN WebsiteStatus(url, FALSE, FALSE, FALSE, 0, ERR_TIMEOUT)
    ELSE IF e.kind = "ConnectionError"
    THEN WebsiteStatus(url, FALSE, FALSE, FALSE, 0, ERR_CONNECTION)
    ELSE WebsiteStatus(url, FALSE, FALSE, FALSE, 0, e.msg)

\* url.replace("https://", "http://")
http_url(url) == IF url.scheme = "https://" THEN [url EXCEPT !.scheme = "http://"] ELSE url

\* variant: the plain-HTTP request is made outside any try block
ssl_fallback_result_uncaught(url, out) ==
    IF out.kind = "response"
    THEN WebsiteStatus(url, TRUE, out.status_code < HttpErrorFrom,
                       ~ _is_parking_page(out.text), out.status_code,
                       ERR_SSL_FALLBACK)
    ELSE Raised(out.kind)

\* lines 200-223: the result built from the outcome of the plain-HTTP request
ssl_fallback_result(url, out) ==
    IF out.kind = "response"
    THEN WebsiteStatus(url, TRUE, out.status_code < HttpErrorFrom,
                       ~ _is_parking_page(out.text), out.status_code,
                       ERR_SSL_FALLBACK)
    ELSE WebsiteStatus(url, FALSE, FALSE, FALSE, 0, ERR_SSL)

LogEntry(op, url, out) == [op |-> op, url |-> url, out |-> out]
DnsOut(r) == Exc(r, IF r = "UnicodeError" THEN "label empty or too long" ELSE "")

----------------------------------------------------------------------------
(* check_website, one step per network operation *)

\* variant: the validity classifier is not consulted
Enter_without_classifier ==
    /\ cw_pc = "call"
    /\ IF cw_arg = EmptyUrl
       THEN /\ cw_result' = WebsiteStatus(EmptyUrl, FALSE, FALSE, FALSE, 0, ERR_EMPTY)
            /\ cw_pc' = "done"
            /\ UNCHANGED cw_url
       ELSE /\ cw_url' = _normalize_url(cw_arg)
            /\ cw_pc' = "dns"
            /\ UNCHANGED cw_result
    /\ UNCHANGED <<cw_arg, cw_resp, cw_log>>
    /\ UNCHANGED nonCwVars

\* lines 96-116: empty check, normalisation, validity classifier
Enter ==
    /\ cw_pc = "call"
    /\ IF cw_arg = EmptyUrl
       THEN /\ cw_result' = WebsiteStatus(EmptyUrl, FALSE, FALSE, FALSE, 0, ERR_EMPTY)
            /\ cw_pc' = "done"
            /\ UNCHANGED cw_url
       ELSE LET url == _normalize_url(cw_arg) IN
            /\ cw_url' = url
            /\ IF ~ is_valid_website(url)
               THEN /\ cw_result' = WebsiteStatus(url, FALSE, FALSE, FALSE, 0, ERR_NOT_COMPANY)
                    /\ cw_pc' = "done"
               ELSE /\ cw_pc' = "dns"
                    /\ UNCHANGED cw_result
    /\ UNCHANGED <<cw_arg, cw_resp, cw_log>>
    /\ UNCHANGED nonCwVars

\* variant: a failed resolution is ignored and the request is made anyway
ResolveDns_ignoring_failure ==
    /\ cw_pc = "dns"
    /\ LET r == gethostbyname(netloc(cw_url)) IN
       /\ cw_log' = Append(cw_log, LogEntry("dns", cw_url, DnsOut(r)))
       /\ cw_pc' = "get"
    /\ UNCHANGED <<cw_arg, cw_url, cw_resp, cw_result>>
    /\ UNCHANGED nonCwVars

\* lines 119-130: DNS resolution of the netloc
ResolveDns ==
    /\ cw_pc = "dns"
    /\ LET r == gethostbyname(netloc(cw_url)) IN
       /\ cw_log' = Append(cw_log, LogEntry("dns", cw_url, DnsOut(r)))
       /\ IF r = "gaierror"
          THEN /\ cw_result' = WebsiteStatus(cw_url, FALSE, FALSE, FALSE, 0, ERR_DNS)
               /\ cw_pc' = "done"
          ELSE IF r = "ok"
          THEN /\ cw_pc' = "get"
               /\ UNCHANGED cw_result
          ELSE /\ cw_result' = handle_exception(cw_url, DnsOut(r))
               /\ cw_pc' = "done"
    /\ UNCHANGED <<cw_arg, cw_url, cw_resp>>
    /\ UNCHANGED nonCwVars

\* variant: a timed-out request is issued again
HttpGet_retrying_timeout ==
    /\ cw_pc = "get"
    /\ \E out \in GetOutcomes :
         /\ cw_log' = Append(cw_log, LogEntry("get", cw_url, out))
         /\ IF out.kind = "response"
            THEN /\ cw_resp' = out
                 /\ cw_pc' = "evaluate"
                 /\ UNCHANGED cw_result
            ELSE IF out.kind = "SSLError"
            THEN /\ cw_pc' = "ssl_fallback"
                 /\ UNCHANGED <<cw_resp, cw_result>>
            ELSE IF out.kind = "Timeout"
            THEN UNCHANGED <<cw_pc, cw_resp, cw_result>>
            ELSE /\ cw_result' = handle_exception(cw_url, out)
                 /\ cw_pc' = "done"
                 /\ UNCHANGED cw_resp
    /\ UNCHANGED <<cw_arg, cw_url>>
    /\ UNCHANGED nonCwVars

\* lines 133-139 and the except clauses at 190-197 and 224-239
HttpGet ==
    /\ cw_pc = "get"
    /\ \E out \in GetOutcomes :
         /\ cw_log' = Append(cw_log, LogEntry("get", cw_url, out))
         /\ IF out.kind = "response"
            THEN /\ cw_resp' = out
                 /\ cw_pc' = "evaluate"
                 /\ UNCHANGED cw_result
            ELSE IF out.kind = "SSLError"
            THEN /\ cw_pc' = "ssl_fallback"
                 /\ UNCHANGED <<cw_resp, cw_result>>
            ELSE /\ cw_result' = handle_exception(cw_url, out)
                 /\ cw_pc' = "done"
                 /\ UNCHANGED cw_resp
    /\ UNCHANGED <<cw_arg, cw_url>>
    /\ UNCHANGED nonCwVars

\* lines 141-188
Evaluate ==
    /\ cw_pc = "evaluate"
    /\ cw_result' = evaluate_response(cw_url, cw_resp)
    /\ cw_pc' = "done"
    /\ UNCHANGED <<cw_arg, cw_url, cw_resp, cw_log>>
    /\ UNCHANGED nonCwVars

\* lines 198-223: one request over plain HTTP, every exception caught
SslFallback ==
    /\ cw_pc = "ssl_fallback"
    /\ \E out \in GetOutcomes :
         /\ cw_log' = Append(cw_log, LogEntry("get", http_url(cw_url), out))
         /\ cw_resp' = IF out.kind = "response" THEN out ELSE cw_resp
         /\ cw_result' = ssl_fallback_result(cw_url, out)
         /\ cw_pc' = "done"
    /\ UNCHANGED <<cw_arg, cw_url>>
    /\ UNCHANGED nonCwVars


\* the whole call as a function of what the network does: g is the outcome of
\* the primary request and f of the plain-HTTP request
check_website(arg, g, f) ==
    IF arg = EmptyUrl
    THEN WebsiteStatus(EmptyUrl, FALSE, FALSE, FALSE, 0, ERR_EMPTY)
    ELSE LET url == _normalize_url(arg)
             d == gethostbyname(netloc(url))
         IN IF ~ is_valid_website(url)
            THEN WebsiteStatus(url, FALSE, FALSE, FALSE, 0, ERR_NOT_COMPANY)
            ELSE IF d = "gaierror"
            THEN WebsiteStatus(url, FALSE, FALSE, FALSE, 0, ERR_DNS)
            ELSE IF d # "ok" THEN handle_exception(url, DnsOut(d))
            ELSE IF g.kind = "response" THEN evaluate_response(url, g)
            ELSE IF g.kind = "SSLError" THEN ssl_fallback_result(url, f)
            ELSE handle_exception(url, g)

cwIdle ==
    /\ cw_pc = "idle" /\ cw_arg = EmptyUrl /\ cw_url = EmptyUrl
    /\ cw_resp = NoResp /\ cw_log = <<>> /\ cw_result = NoStatus

scanIdle ==
    /\ mode = "none" /\ verify_websites = FALSE /\ sources = <<>>
    /\ phase = "idle" /\ ind = 0 /\ src = 0 /\ yielded = 0
    /\ seen_names = {} /\ industry_businesses = <<>> /\ all_businesses = <<>>
    /\ vi = 0 /\ verify_log = <<>> /\ businesses_without_website = <<>>
    /\ search_raised = FALSE

exIdle ==
    /\ ex_text = <<>> /\ ex_fn = "none" /\ ex_out = <<>> /\ ex_order = <<>>

asIdle ==
    /\ as_scraper = "none" /\ as_card = <<>> /\ as_detail = <<>>
    /\ as_pc = "idle" /\ biz = <<>> /\ as_result = "none"

sbIdle ==
    /\ sb_mode = "none" /\ sb_max = 0 /\ sb_candidates = <<>> /\ sb_i = 0
    /\ sb_seen_phones = {} /\ sb_seen_names = {} /\ sb_all = <<>>
    /\ sb_kept = {} /\ sb_pc = "idle"

pfIdle ==
    /\ pf_mode = "none" /\ pf_max = 0 /\ pf_page = 0 /\ pf_results_count = 0
    /\ pf_links = <<>> /\ pf_next_link = FALSE /\ pf_fetched = 0
    /\ pf_websites = <<>> /\ pf_vi = 0 /\ pf_pc = "idle"
    /\ net_last = "none" /\ net_back_to_back = FALSE

jobIdle ==
    /\ scan_jobs = <<>> /\ run_pc = <<>> /\ total_industries = <<>> /\ run_idx = <<>>
    /\ run_i = <<>>
    /\ actor = "none" /\ reply = [kind |-> "none"]

\* one call of check_website on any url
Init ==
    /\ cw_pc = "call"
    /\ cw_arg \in UrlInputs
    /\ cw_url = EmptyUrl
    /\ cw_resp = NoResp
    /\ cw_log = <<>>
    /\ cw_result = NoStatus
    /\ scanIdle
    /\ exIdle
    /\ asIdle
    /\ sbIdle
    /\ pfIdle
    /\ jobIdle

Next == Enter \/ ResolveDns \/ HttpGet \/ Evaluate \/ SslFallback

Spec == Init /\ [][Next]_vars

----------------------------------------------------------------------------
(* Business records as the scrapers emit them *)

Names == {"Alfa", "ALFA", "Beta"}

\* business.name.lower().strip()
name_key(name) == IF name \in {"Alfa", "ALFA"} THEN "alfa" ELSE "beta"

\* the fields of Business.to_dict() that the verification and filter phases use
Business(name, source, website, has_website) ==
    [name |-> name, source |-> source, website |-> website,
     has_website |-> has_website]

\* the href of the website link of a listing or detail page; EmptyUrl when
\* the page has no such link
Hrefs == { EmptyUrl,
           [pad |-> "", scheme |-> "https://", host |-> <<"bakery.pl">>, port |-> "", path |-> <<>>],
           [pad |-> "", scheme |-> "https://", host |-> <<"gone.pl">>, port |-> "", path |-> <<>>],
           [pad |-> "", scheme |-> "https://", host |-> <<"facebook.com">>, port |-> "", path |-> <<"/oferta">>] }

\* PanoramaFirmScraper._fetch_company_details: the detail page could not be
\* fetched (or parsing raised), so only name and industry are set and
\* has_website keeps the dataclass default
panorama_name_only(name) == Business(name, "panorama_firm", EmptyUrl, TRUE)

\* PanoramaFirmScraper._fetch_company_details with a detail page
panorama_details(name, href) ==
    LET website == IF is_valid_website(href) THEN href ELSE EmptyUrl
    IN Business(name, "panorama_firm", website, website # EmptyUrl)

\* PKTScraper._parse_result: href is the website link of the result, www the
\* "https://" + www. address found in its text (EmptyUrl when there is none)
pkt_parse_result(name, href, www) ==
    LET linked == IF is_valid_website(href) THEN href ELSE EmptyUrl
        website == IF linked # EmptyUrl THEN linked
                   ELSE IF www # EmptyUrl /\ is_valid_website(www) THEN www
                   ELSE EmptyUrl
    IN Business(name, "pkt", website, website # EmptyUrl)

\* GoogleMapsScraper._get_place_details
google_place_details(name, website) ==
    Business(name, "google_maps_api", website, website # EmptyUrl)

\* what one search_businesses generator of the named scraper can yield
Yields(scraper) ==
    IF scraper = "panorama"
    THEN { panorama_name_only(n) : n \in Names }
         \cup { panorama_details(n, h) : n \in Names, h \in Hrefs }
    ELSE IF scraper = "pkt"
    THEN { pkt_parse_result(n, h, w) : n \in Names, h \in Hrefs, w \in Hrefs }
    ELSE { google_place_details(n, h) : n \in Names, h \in Hrefs }

\* has_no_website, given the status its check_website call returned
has_no_website(business_data, status) ==
    IF business_data.website = EmptyUrl THEN TRUE
    ELSE ~ (status.exists /\ status.is_active /\ status.is_company_site)

----------------------------------------------------------------------------
(* The scan: SzczecinBusinessScraper.run (cli) and run_scan (web) *)

\* self.scrapers is filled in the order google, panorama, pkt
SourceConfigs ==
    { <<"panorama", "pkt">>, <<"google">>, <<"panorama">>, <<"pkt">>,
      <<"google", "panorama">>, <<"google", "pkt">>,
      <<"google", "panorama", "pkt">> }

\* [b for b in seq if not b.get("has_website", True)]
RECURSIVE without_website(_)
without_website(seq) ==
    IF seq = <<>> THEN <<>>
    ELSE IF ~ Head(seq).has_website
    THEN <<Head(seq)>> \o without_website(Tail(seq))
    ELSE without_website(Tail(seq))

\* phase entered when the last industry has been scanned
AfterScan(businesses) ==
    IF businesses # <<>> /\ (mode = "web" \/ verify_websites) THEN "verify"
    ELSE "filter"

\* one business comes out of the running search_businesses generator: the
\* body of the inner for loop (main.py 148-161, app.py 87-94)
YieldBusiness ==
    /\ phase = "scan"
    /\ yielded < MaxResults
    /\ \E business \in Yields(sources[src]) :
         /\ yielded' = yielded + 1
         /\ IF name_key(business.name) \in seen_names
            THEN UNCHANGED <<seen_names, industry_businesses, all_businesses>>
            ELSE /\ seen_names' = seen_names \cup {name_key(business.name)}
                 /\ IF mode = "cli"
                    THEN /\ industry_businesses' = Append(industry_businesses, business)
                         /\ UNCHANGED all_businesses
                    ELSE /\ all_businesses' = Append(all_businesses, business)
                         /\ UNCHANGED industry_businesses
    /\ UNCHANGED <<search_raised, mode, verify_websites, sources, phase, ind, src, vi,
                   verify_log, businesses_without_website>>
    /\ UNCHANGED nonScanVars

\* where the orchestrator goes when a search_businesses call is over: to the
\* next source, and after the last source of an industry it extends
\* all_businesses and goes to the next industry or leaves the scan loop
LeaveSearch ==
    /\ phase = "scan"
    /\ yielded' = 0
    /\ IF src < Len(sources)
       THEN /\ src' = src + 1
            /\ UNCHANGED <<ind, phase, industry_businesses, all_businesses>>
       ELSE LET businesses == all_businesses \o industry_businesses IN
            /\ all_businesses' = businesses
            /\ industry_businesses' = <<>>
            /\ src' = 1
            /\ IF ind < MaxIndustries
               THEN /\ ind' = ind + 1
                    /\ UNCHANGED phase
               ELSE /\ phase' = AfterScan(businesses)
                    /\ UNCHANGED ind
    /\ UNCHANGED <<mode, verify_websites, sources, seen_names, vi,
                   verify_log, businesses_without_website>>
    /\ UNCHANGED nonScanVars

\* the running generator is exhausted (main.py 143-167, app.py 82-94)
EndSearch ==
    /\ LeaveSearch
    /\ UNCHANGED search_raised

\* variant: an exception of a scraper ends the scan
SearchRaises_aborting_scan ==
    /\ phase = "scan"
    /\ search_raised' = TRUE
    /\ phase' = "done"
    /\ UNCHANGED <<mode, verify_websites, sources, ind, src, yielded, seen_names,
                   industry_businesses, all_businesses, vi, verify_log,
                   businesses_without_website>>
    /\ UNCHANGED nonScanVars

\* the running generator raises, at any point of its iteration: the except
\* clause logs and continues (main.py 163-165, app.py 96-98)
SearchRaises ==
    /\ LeaveSearch
    /\ search_raised' = TRUE

\* what the network does to the requests of the verification loop: every
\* failure, and every status code with a body of each kind (thin, parked,
\* placeholder, substantive)
ScanOutcomes ==
    Failures \cup
    { Response(c, t) : c \in StatusCodes,
                       t \in { <<>>, <<"Domain for sale. Contact owner.">>,
                               <<"LOREM IPSUM", "text100">>, <<"text100">> } }

\* what the verification loop records about one business
Verified(checked, status) == [checked |-> checked, status |-> status]

\* variant: the loop is left at the first business whose check did not
\* confirm a site
VerifyOne_stopping_at_failure ==
    /\ phase = "verify"
    /\ LET business == all_businesses[vi] IN
       IF business.website = EmptyUrl
       THEN /\ all_businesses' = [all_businesses EXCEPT ![vi].has_website = FALSE]
            /\ verify_log' = Append(verify_log, Verified(FALSE, NoStatus))
            /\ vi' = vi + 1
            /\ phase' = IF vi = Len(all_businesses) THEN "filter" ELSE "verify"
       ELSE \E g \in ScanOutcomes :
            \E f \in (IF g.kind = "SSLError" THEN ScanOutcomes ELSE {NoResp}) :
              LET status == check_website(business.website, g, f)
                  has == status.kind = "status" /\ status.is_active /\ status.is_company_site
              IN /\ all_businesses' = [all_businesses EXCEPT ![vi].has_website = has]
                 /\ verify_log' = Append(verify_log, Verified(TRUE, status))
                 /\ vi' = vi + 1
                 /\ phase' = IF vi = Len(all_businesses) \/ ~ has THEN "filter" ELSE "verify"
    /\ UNCHANGED <<search_raised, mode, verify_websites, sources, ind, src, yielded, seen_names,
                   industry_businesses, businesses_without_website>>
    /\ UNCHANGED nonScanVars

\* one iteration of the verification loop (main.py 176-197, app.py 104-116)
VerifyOne ==
    /\ phase = "verify"
    /\ LET business == all_businesses[vi] IN
       IF business.website = EmptyUrl
       THEN /\ all_businesses' = [all_businesses EXCEPT ![vi].has_website = FALSE]
            /\ verify_log' = Append(verify_log, Verified(FALSE, NoStatus))
       ELSE \E g \in ScanOutcomes :
            \E f \in (IF g.kind = "SSLError" THEN ScanOutcomes ELSE {NoResp}) :
              LET status == check_website(business.website, g, f)
                  has == IF status.kind = "raised" THEN FALSE
                         ELSE status.is_active /\ status.is_company_site
              IN /\ all_businesses' = [all_businesses EXCEPT ![vi].has_website = has]
                 /\ verify_log' = Append(verify_log, Verified(TRUE, status))
    /\ vi' = vi + 1
    /\ phase' = IF vi = Len(all_businesses) THEN "filter" ELSE "verify"
    /\ UNCHANGED <<search_raised, mode, verify_websites, sources, ind, src, yielded, seen_names,
                   industry_businesses, businesses_without_website>>
    /\ UNCHANGED nonScanVars

\* variant: a lead is a business with no website on record
Filter_by_website_field ==
    /\ phase = "filter"
    /\ businesses_without_website' =
         SelectSeq(all_businesses, LAMBDA b : b.website = EmptyUrl)
    /\ phase' = "done"
    /\ UNCHANGED <<search_raised, mode, verify_websites, sources, ind, src, yielded, seen_names,
                   industry_businesses, all_businesses, vi, verify_log>>
    /\ UNCHANGED nonScanVars

\* the filter phase (main.py 119-121, app.py 119-121)
Filter ==
    /\ phase = "filter"
    /\ businesses_without_website' = without_website(all_businesses)
    /\ phase' = "done"
    /\ UNCHANGED <<search_raised, mode, verify_websites, sources, ind, src, yielded, seen_names,
                   industry_businesses, all_businesses, vi, verify_log>>
    /\ UNCHANGED nonScanVars

\* a scan about to start: the cli with any source selection and with or
\* without verification, or a web job
InitScan ==
    /\ cwIdle
    /\ exIdle
    /\ asIdle
    /\ sbIdle
    /\ pfIdle
    /\ jobIdle
    /\ mode \in {"cli", "web"}
    /\ verify_websites \in (IF mode = "cli" THEN BOOLEAN ELSE {TRUE})
    /\ sources \in (IF mode = "cli" THEN SourceConfigs ELSE { <<"panorama">> })
    /\ phase = "scan" /\ ind = 1 /\ src = 1 /\ yielded = 0
    /\ seen_names = {} /\ industry_businesses = <<>> /\ all_businesses = <<>>
    /\ vi = 1 /\ verify_log = <<>> /\ businesses_without_website = <<>>
    /\ search_raised = FALSE

NextScan == YieldBusiness \/ EndSearch \/ SearchRaises \/ VerifyOne \/ Filter

SpecScan == InitScan /\ [][NextScan]_vars

----------------------------------------------------------------------------
(* Text at character level: the contact extractors *)
(* A text is a sequence of one-character strings.                          *)

MaxPhones == 2       \* phone-like tokens in one input text
MaxEmails == 4       \* email-like tokens in one input text

Digits == {"0", "1", "2", "3", "4", "5", "6", "7", "8", "9"}
UpperSeq == <<"A", "B", "C", "D", "E", "F", "G", "H", "I", "J", "K", "L", "M",
              "N", "O", "P", "Q", "R", "S", "T", "U", "V", "W", "X", "Y", "Z">>
LowerSeq == <<"a", "b", "c", "d", "e", "f", "g", "h", "i", "j", "k", "l", "m",
              "n", "o", "p", "q", "r", "s", "t", "u", "v", "w", "x", "y", "z">>
Letters == {UpperSeq[i] : i \in 1..26} \cup {LowerSeq[i] : i \in 1..26}

\* str.lower()
lower_char(c) ==
    IF \E i \in 1..26 : UpperSeq[i] = c
    THEN LowerSeq[CHOOSE i \in 1..26 : UpperSeq[i] = c]
    ELSE c
text_lower(s) == [i \in 1..Len(s) |-> lower_char(s[i])]

\* "sub in s"
Contains(s, sub) ==
    \E i \in 1..(Len(s) - Len(sub) + 1) : SubSeq(s, i, i + Len(sub) - 1) = sub

\* s.replace(old, "") for an old that occurs at most once, at the front
replace_prefix(s, old) ==
    IF Len(s) >= Len(old) /\ SubSeq(s, 1, Len(old)) = old
    THEN SubSeq(s, Len(old) + 1, Len(s))
    ELSE s

\* re.sub(r'\D', '', s)
digits_of(s) == SelectSeq(s, LAMBDA c : c \in Digits)
\* s[-9:]
last9(s) == IF Len(s) > 9 THEN SubSeq(s, Len(s) - 8, Len(s)) ELSE s

(* The phone patterns are sequences of regex elements; none of them needs  *)
(* backtracking, because the character classes of adjacent elements are    *)
(* disjoint.                                                               *)
Lit(c) == [k |-> "lit", c |-> c, n |-> 0]     \* one literal character
D(n) == [k |-> "d", c |-> "", n |-> n]        \* \d{n}
WS == [k |-> "ws", c |-> "", n |-> 0]         \* \s*
SEP == [k |-> "sep", c |-> "", n |-> 0]       \* [-.\s]?
NB == [k |-> "nb", c |-> "", n |-> 0]         \* (?<!\d)
NA == [k |-> "na", c |-> "", n |-> 0]         \* (?!\d)

\* index just after the match of pat[j..] that starts at text[i]; 0 if none
RECURSIVE MatchEnd(_, _, _, _)
MatchEnd(pat, j, text, i) ==
    IF j > Len(pat) THEN i
    ELSE LET e == pat[j]
             here == i <= Len(text)
         IN CASE e.k = "lit" ->
                   IF here /\ text[i] = e.c
                   THEN MatchEnd(pat, j + 1, text, i + 1) ELSE 0
              [] e.k = "d" ->
                   IF i + e.n - 1 <= Len(text)
                      /\ \A q \in i..(i + e.n - 1) : text[q] \in Digits
                   THEN MatchEnd(pat, j + 1, text, i + e.n) ELSE 0
              [] e.k = "ws" ->
                   IF here /\ text[i] = " "
                   THEN MatchEnd(pat, j, text, i + 1)
                   ELSE MatchEnd(pat, j + 1, text, i)
              [] e.k = "sep" ->
                   IF here /\ text[i] \in {"-", ".", " "}
                   THEN MatchEnd(pat, j + 1, text, i + 1)
                   ELSE MatchEnd(pat, j + 1, text, i)
              [] e.k = "nb" ->
                   IF i > 1 /\ text[i - 1] \in Digits
                   THEN 0 ELSE MatchEnd(pat, j + 1, text, i)
              [] e.k = "na" ->
                   IF here /\ text[i] \in Digits
                   THEN 0 ELSE MatchEnd(pat, j + 1, text, i)

\* re.findall(pattern, text): non-overlapping matches, left to right
RECURSIVE findall_from(_, _, _)
findall_from(pat, text, i) ==
    IF i > Len(text) THEN <<>>
    ELSE LET e == MatchEnd(pat, 1, text, i) IN
         IF e > i THEN <<SubSeq(text, i, e - 1)>> \o findall_from(pat, text, e)
         ELSE findall_from(pat, text, i + 1)
findall(pat, text) == findall_from(pat, text, 1)

RECURSIVE Flatten(_)
Flatten(ss) == IF ss = <<>> THEN <<>> ELSE Head(ss) \o Flatten(Tail(ss))
Range(s) == {s[i] : i \in 1..Len(s)}
\* all lists that hold each element of S once
ListsOf(S) == {l \in [1..Cardinality(S) -> S] : Range(l) = S}

P48 == <<Lit("+"), Lit("4"), Lit("8")>>
\* validators.py: patterns of extract_phones
validators_patterns == <<
    P48 \o <<WS, D(3), WS, D(3), WS, D(3)>>,
    P48 \o <<WS, D(2), WS, D(3), WS, D(2), WS, D(2)>>,
    <<Lit("(")>> \o P48 \o <<Lit(")"), WS, D(3), WS, D(3), WS, D(3)>>,
    <<Lit("4"), Lit("8"), WS, D(3), WS, D(3), WS, D(3)>>,
    <<D(3), SEP, D(3), SEP, D(3)>>,
    <<D(2), SEP, D(3), SEP, D(2), SEP, D(2)>>,
    <<D(9)>> >>
\* api/scan.py: patterns of extract_phones
scan_patterns == <<
    P48 \o <<WS, D(3), WS, D(3), WS, D(3)>>,
    <<NB, D(3), SEP, D(3), SEP, D(3), NA>>,
    <<NB, D(2), SEP, D(3), SEP, D(2), SEP, D(2), NA>> >>

\* every match of every pattern, in pattern order, then in text order
matches_of(patterns, text) ==
    Flatten([p \in 1..Len(patterns) |-> findall(patterns[p], text)])

\* validators.py extract_phones: the set it collects ...
phones_set(text) ==
    LET ms == matches_of(validators_patterns, text)
    IN { last9(digits_of(ms[i])) :
            i \in {q \in 1..Len(ms) : Len(digits_of(ms[q])) >= 9} }
\* ... and the lists list(phones) can be: a set has no defined order
extract_phones(text) ==
    IF text = <<>> THEN { <<>> } ELSE ListsOf(phones_set(text))

SPAM_PHONES == { <<"2", "2", "4", "5", "7", "3", "0", "9", "5">>, <<"2", "2", "2", "9", "9", "2", "9", "9", "2">>, <<"8", "0", "1", "0", "0", "0", "5", "0", "0">>,
                 <<"1", "2", "0", "9", "5", "1", "7", "0", "4">>, <<"2", "2", "3", "0", "7", "4", "0", "0", "2">> }
is_spam_phone(phone) ==
    IF phone = <<>> THEN TRUE
    ELSE LET normalized == last9(digits_of(phone))
         IN normalized \in SPAM_PHONES \/ Len(normalized) < 9

\* api/scan.py extract_phones: the loop over the matches
RECURSIVE scan_collect_phones(_, _)
scan_collect_phones(ms, phones) ==
    IF ms = <<>> THEN phones
    ELSE LET normalized == last9(digits_of(Head(ms)))
         IN scan_collect_phones(Tail(ms),
                IF normalized # <<>> /\ ~ is_spam_phone(normalized)
                   /\ normalized \notin Range(phones)
                THEN Append(phones, normalized) ELSE phones)
scan_extract_phones(text) ==
    IF text = <<>> THEN <<>>
    ELSE scan_collect_phones(matches_of(scan_patterns, text), <<>>)

----------------------------------------------------------------------------

(* The email pattern [a-zA-Z0-9._%+-]+@[a-zA-Z0-9.-]+\.[a-zA-Z]{2,} *)

LocalChars == Letters \cup Digits \cup {".", "_", "%", "+", "-"}
DomainChars == Letters \cup Digits \cup {".", "-"}

\* first index from i on whose character is outside class
RECURSIVE RunEnd(_, _, _)
RunEnd(text, i, class) ==
    IF i <= Len(text) /\ text[i] \in class THEN RunEnd(text, i + 1, class)
    ELSE i

Max(S) == CHOOSE x \in S : \A y \in S : y <= x

\* index just after the email that starts at text[i]; 0 if none starts there.
\* The greedy domain part gives back characters up to the last dot that is
\* followed by two letters or more.
email_match_end(text, i) ==
    LET at == RunEnd(text, i, LocalChars) IN
    IF at = i \/ at > Len(text) \/ text[at] # "@" THEN 0
    ELSE LET stop == RunEnd(text, at + 1, DomainChars)
             dots == { d \in (at + 2)..(stop - 1) :
                         /\ text[d] = "."
                         /\ RunEnd(text, d + 1, Letters) >= d + 3 }
         IN IF dots = {} THEN 0 ELSE RunEnd(text, Max(dots) + 1, Letters)

RECURSIVE findall_emails_from(_, _)
findall_emails_from(text, i) ==
    IF i > Len(text) THEN <<>>
    ELSE LET e == email_match_end(text, i) IN
         IF e > i THEN <<SubSeq(text, i, e - 1)>> \o findall_emails_from(text, e)
         ELSE findall_emails_from(text, i + 1)
findall_emails(text) == findall_emails_from(text, 1)

\* validators.py
is_valid_email(email) ==
    /\ email # <<>>
    /\ email_match_end(text_lower(email), 1) = Len(email) + 1

FAKE_EMAILS == << <<"e", "x", "a", "m", "p", "l", "e", ".", "c", "o", "m">>, <<"t", "e", "s", "t", ".", "c", "o", "m">>, <<"e", "m", "a", "i", "l", "@">>, <<"@", "e", "m", "a", "i", "l">> >>

RECURSIVE collect_emails(_, _)
collect_emails(emails, valid_emails) ==
    IF emails = <<>> THEN valid_emails
    ELSE LET email == Head(emails)
             keep == /\ email \notin Range(valid_emails)
                     /\ is_valid_email(email)
                     /\ ~ \E f \in 1..Len(FAKE_EMAILS) : Contains(email, FAKE_EMAILS[f])
         IN collect_emails(Tail(emails),
                IF keep THEN Append(valid_emails, email) ELSE valid_emails)
extract_emails(text) ==
    IF text = <<>> THEN <<>>
    ELSE collect_emails(findall_emails(text_lower(text)), <<>>)

\* api/scan.py
SPAM_EMAILS == { <<"w", "e", "n", "e", "t", ".", "p", "l">>, <<"p", "a", "n", "o", "r", "a", "m", "a", "f", "i", "r", "m", ".", "p", "l">>, <<"p", "k", "t", ".", "p", "l">>, <<"o", "n", "e", "t", ".", "p", "l">>,
                 <<"k", "o", "n", "t", "a", "k", "t", "@">> }
MaxReturnedEmails == 3
is_spam_email(email) ==
    IF email = <<>> THEN TRUE
    ELSE \E spam \in SPAM_EMAILS : Contains(text_lower(email), spam)

RECURSIVE scan_collect_emails(_, _)
scan_collect_emails(found, emails) ==
    IF found = <<>> THEN emails
    ELSE LET email == Head(found)
         IN scan_collect_emails(Tail(found),
                IF ~ is_spam_email(email) /\ email \notin Range(emails)
                THEN Append(emails, email) ELSE emails)
scan_extract_emails(text) ==
    IF text = <<>> THEN <<>>
    ELSE LET emails == scan_collect_emails(findall_emails(text_lower(text)), <<>>)
         IN SubSeq(emails, 1, IF Len(emails) < MaxReturnedEmails
                              THEN Len(emails) ELSE MaxReturnedEmails)

----------------------------------------------------------------------------

(* The social-link patterns *)

HandleChars == Letters \cup Digits \cup {".", "_", "-"}

\* text[i..] starts with the lower-case literal lit, letter case ignored
at_ci(text, i, lit) ==
    /\ i + Len(lit) - 1 <= Len(text)
    /\ lower_char(text[i]) = lit[1]
    /\ text_lower(SubSeq(text, i, i + Len(lit) - 1)) = lit

\* index after https?:// at text[i]; i when no scheme starts there
skip_scheme(text, i) ==
    IF at_ci(text, i, <<"h", "t", "t", "p", "s", ":", "/", "/">>) THEN i + 8
    ELSE IF at_ci(text, i, <<"h", "t", "t", "p", ":", "/", "/">>) THEN i + 7
    ELSE i
\* index after (?:www\.)? at text[i]
skip_www(text, i) == IF at_ci(text, i, <<"w", "w", "w", ".">>) THEN i + 4 ELSE i

\* index after site/[a-zA-Z0-9._-]+ at text[i]; 0 if it does not start there
handle_end(text, i, site) ==
    LET h == i + Len(site) + 1 IN
    IF at_ci(text, i, site \o <<"/">>) /\ RunEnd(text, h, HandleChars) > h
    THEN RunEnd(text, h, HandleChars)
    ELSE 0

\* index after (?:https?://)?(?:www\.)?site/[a-zA-Z0-9._-]+/? at text[i]
profile_match_end(text, i, site) ==
    LET e == handle_end(text, skip_www(text, skip_scheme(text, i)), site) IN
    IF e = 0 THEN 0
    ELSE IF e <= Len(text) /\ text[e] = "/" THEN e + 1
    ELSE e

Min(S) == CHOOSE x \in S : \A y \in S : x <= y

\* re.search(pattern, source, re.IGNORECASE).group(0) for the pattern whose
\* alternatives are sites; <<>> when there is no match
search(text, sites) ==
    LET starts == { i \in 1..Len(text) :
                      \E s \in sites : profile_match_end(text, i, s) > 0 }
    IN IF starts = {} THEN <<>>
       ELSE LET i == Min(starts)
                s == CHOOSE s \in sites : profile_match_end(text, i, s) > 0
            IN SubSeq(text, i, profile_match_end(text, i, s) - 1)

\* if not url.startswith('http'): url = 'https://' + url
with_https(url) ==
    IF Len(url) >= 4 /\ SubSeq(url, 1, 4) = <<"h", "t", "t", "p">> THEN url
    ELSE <<"h", "t", "t", "p", "s", ":", "/", "/">> \o url

\* the patterns of one platform are tried in turn; the first that matches wins
first_found(text, platform_patterns) ==
    LET found == SelectSeq([k \in 1..Len(platform_patterns) |->
                              search(text, platform_patterns[k])],
                           LAMBDA url : url # <<>>)
    IN IF found = <<>> THEN <<>> ELSE with_https(Head(found))

\* validators.py extract_social_media(text): None is the empty text
extract_social_media(source) ==
    [facebook |-> first_found(source, << {<<"f", "a", "c", "e", "b", "o", "o", "k", ".", "c", "o", "m">>}, {<<"f", "b", ".", "c", "o", "m">>} >>),
     instagram |-> first_found(source, << {<<"i", "n", "s", "t", "a", "g", "r", "a", "m", ".", "c", "o", "m">>} >>),
     linkedin |-> first_found(source, << {<<"l", "i", "n", "k", "e", "d", "i", "n", ".", "c", "o", "m", "/", "c", "o", "m", "p", "a", "n", "y">>,
                                          <<"l", "i", "n", "k", "e", "d", "i", "n", ".", "c", "o", "m", "/", "i", "n">>} >>),
     twitter |-> first_found(source, << {<<"t", "w", "i", "t", "t", "e", "r", ".", "c", "o", "m">>, <<"x", ".", "c", "o", "m">>} >>)]

\* href=["']?(https?://(?:www\.)?site/([a-zA-Z0-9._-]+))["']? at text[i]:
\* where group 2 starts, and the index after it (0 if there is no match)
href_handle_start(text, i, site) ==
    LET q == IF i + 5 <= Len(text) /\ text[i + 5] \in {"\"", "'"}
             THEN i + 6 ELSE i + 5
    IN skip_www(text, skip_scheme(text, q)) + Len(site) + 1
href_handle_end(text, i, site) ==
    LET q == IF i + 5 <= Len(text) /\ text[i + 5] \in {"\"", "'"}
             THEN i + 6 ELSE i + 5
    IN IF at_ci(text, i, <<"h", "r", "e", "f", "=">>) /\ skip_scheme(text, q) > q
       THEN handle_end(text, skip_www(text, skip_scheme(text, q)), site)
       ELSE 0

\* re.findall(..., html, re.I): the handles, in document order
RECURSIVE href_handles_from(_, _, _)
href_handles_from(text, i, site) ==
    IF i > Len(text) THEN <<>>
    ELSE LET e == href_handle_end(text, i, site) IN
         IF e > 0
         THEN <<SubSeq(text, href_handle_start(text, i, site), e - 1)>>
              \o href_handles_from(text, e, site)
         ELSE href_handles_from(text, i + 1, site)

FACEBOOK_EXCLUDED == { <<"p", "a", "n", "o", "r", "a", "m", "a", "f", "i", "r", "m">>, <<"w", "e", "n", "e", "t">>, <<"s", "h", "a", "r", "e", "r">>, <<"s", "h", "a", "r", "e">>,
                       <<"p", "a", "g", "e", "s">>, <<"p", "r", "o", "f", "i", "l", "e", ".", "p", "h", "p">>, <<"t", "r">> }
INSTAGRAM_EXCLUDED == { <<"p", "a", "n", "o", "r", "a", "m", "a", "f", "i", "r", "m">>, <<"p">>, <<"e", "x", "p", "l", "o", "r", "e">>, <<"a", "c", "c", "o", "u", "n", "t", "s">> }

\* for url, name in matches: if name.lower() not in excluded: ...; break
first_profile(html, site, excluded) ==
    LET names == SelectSeq(href_handles_from(html, 1, site),
                           LAMBDA name : text_lower(name) \notin excluded)
    IN IF names = <<>> THEN <<>>
       ELSE <<"h", "t", "t", "p", "s", ":", "/", "/">> \o site \o <<"/">> \o Head(names)

\* api/scan.py extract_social
extract_social(html) ==
    [facebook |-> first_profile(html, <<"f", "a", "c", "e", "b", "o", "o", "k", ".", "c", "o", "m">>, FACEBOOK_EXCLUDED),
     instagram |-> first_profile(html, <<"i", "n", "s", "t", "a", "g", "r", "a", "m", ".", "c", "o", "m">>, INSTAGRAM_EXCLUDED)]

----------------------------------------------------------------------------

(* Calls of the extractors on arbitrary text *)

MaxCalls == 2        \* calls of the extractor on the same text

PhoneTokens == { <<"+", "4", "8", " ", "9", "1", "2", " ", "3", "4", "5", " ", "6", "7", "8">>, <<"6", "0", "1", "-", "2", "0", "2", "-", "3", "0", "3">>, <<"+", "4", "8", "9", "1", "2", "3", "4", "5", "6", "7", "8">>,
                 <<"2", "2", " ", "4", "5", "7", " ", "3", "0", " ", "9", "5">>, <<"1", "2", "3", "4", "5">> }
EmailTokens == { <<"a", "@", "b", ".", "p", "l">>, <<"A", "@", "b", ".", "p", "l">>, <<"c", "@", "b", ".", "p", "l">>, <<"d", "@", "e", ".", "c", "o", "m">>,
                 <<"x", "@", "o", "n", "e", "t", ".", "p", "l">>, <<"b", "i", "u", "r", "o", "@", "b">> }

\* the tokens of ts written one after the other, separated by ", "
RECURSIVE Join(_)
Join(ts) ==
    IF ts = <<>> THEN <<>>
    ELSE IF Len(ts) = 1 THEN ts[1]
    ELSE ts[1] \o <<",", " ">> \o Join(Tail(ts))

Texts == {Join(ts) : ts \in SeqsUpTo(PhoneTokens, MaxPhones)}
         \cup {Join(ts) : ts \in SeqsUpTo(EmailTokens, MaxEmails)}

\* html with profile anchors
SocialTexts ==
    { <<>>,
      <<"h", "r", "e", "f", "=", "'", "h", "t", "t", "p", "s", ":", "/", "/", "w", "w", "w", ".", "f", "a", "c", "e", "b", "o", "o", "k", ".", "c", "o", "m", "/", "s", "h", "a", "r", "e", "r", "/", "s", "h", "a", "r", "e", "r", ".", "p", "h", "p", "'", " ", "h", "r", "e", "f", "=", "'", "h", "t", "t", "p", "s", ":", "/", "/", "f", "a", "c", "e", "b", "o", "o", "k", ".", "c", "o", "m", "/", "p", "i", "e", "k", "a", "r", "n", "i", "a", "'">>,
      <<"h", "r", "e", "f", "=", "'", "h", "t", "t", "p", "s", ":", "/", "/", "f", "a", "c", "e", "b", "o", "o", "k", ".", "c", "o", "m", "/", "S", "H", "A", "R", "E", "/", "1", "'", " ", "h", "r", "e", "f", "=", "'", "h", "t", "t", "p", ":", "/", "/", "w", "w", "w", ".", "f", "a", "c", "e", "b", "o", "o", "k", ".", "c", "o", "m", "/", "E", "w", "a", ".", "B", "a", "r", "/", "'">>,
      <<"h", "r", "e", "f", "=", "'", "h", "t", "t", "p", "s", ":", "/", "/", "w", "w", "w", ".", "i", "n", "s", "t", "a", "g", "r", "a", "m", ".", "c", "o", "m", "/", "P", "i", "e", "k", "a", "r", "n", "i", "a", "/", "'">>,
      <<"h", "r", "e", "f", "=", "'", "h", "t", "t", "p", "s", ":", "/", "/", "i", "n", "s", "t", "a", "g", "r", "a", "m", ".", "c", "o", "m", "/", "p", "/", "a", "b", "c", "'", " ", "h", "r", "e", "f", "=", "'", "h", "t", "t", "p", "s", ":", "/", "/", "i", "n", "s", "t", "a", "g", "r", "a", "m", ".", "c", "o", "m", "/", "e", "w", "a", "'">>,
      <<"h", "r", "e", "f", "=", "'", "h", "t", "t", "p", "s", ":", "/", "/", "f", "a", "c", "e", "b", "o", "o", "k", ".", "c", "o", "m", "/", "t", "r", "'">>,
      <<"h", "r", "e", "f", "=", "'", "h", "t", "t", "p", "s", ":", "/", "/", "l", "i", "n", "k", "e", "d", "i", "n", ".", "c", "o", "m", "/", "c", "o", "m", "p", "a", "n", "y", "/", "p", "i", "e", "k", "a", "r", "n", "i", "a", "'">> }

PhoneExtractors == {"validators.extract_phones", "scan.extract_phones"}
EmailExtractors == {"validators.extract_emails", "scan.extract_emails"}
SocialExtractors == {"validators.extract_social_media", "scan.extract_social"}

\* validators.extract_phones(text): list(phones) follows the hash order of the
\* running process, which is fixed the first time the set is listed
CallExtractPhones ==
    /\ ex_fn = "validators.extract_phones"
    /\ Len(ex_out) < MaxCalls
    /\ IF ex_order = <<>>
       THEN \E l \in extract_phones(ex_text) :
               /\ ex_out' = Append(ex_out, l)
               /\ ex_order' = <<l>>
       ELSE /\ ex_out' = Append(ex_out, ex_order[1])
            /\ UNCHANGED ex_order
    /\ UNCHANGED <<ex_text, ex_fn>>
    /\ UNCHANGED nonExVars

\* the program is started again (one run per scan): a new hash seed
NewProcess ==
    /\ ex_order # <<>>
    /\ Len(ex_out) < MaxCalls
    /\ ex_order' = <<>>
    /\ UNCHANGED <<ex_text, ex_fn, ex_out>>
    /\ UNCHANGED nonExVars

CallScanExtractPhones ==
    /\ ex_fn = "scan.extract_phones"
    /\ Len(ex_out) < MaxCalls
    /\ ex_out' = Append(ex_out, scan_extract_phones(ex_text))
    /\ UNCHANGED <<ex_text, ex_fn, ex_order>>
    /\ UNCHANGED nonExVars

CallExtractEmails ==
    /\ ex_fn = "validators.extract_emails"
    /\ Len(ex_out) < MaxCalls
    /\ ex_out' = Append(ex_out, extract_emails(ex_text))
    /\ UNCHANGED <<ex_text, ex_fn, ex_order>>
    /\ UNCHANGED nonExVars

CallScanExtractEmails ==
    /\ ex_fn = "scan.extract_emails"
    /\ Len(ex_out) < MaxCalls
    /\ ex_out' = Append(ex_out, scan_extract_emails(ex_text))
    /\ UNCHANGED <<ex_text, ex_fn, ex_order>>
    /\ UNCHANGED nonExVars

CallExtractSocialMedia ==
    /\ ex_fn = "validators.extract_social_media"
    /\ Len(ex_out) < MaxCalls
    /\ ex_out' = Append(ex_out, extract_social_media(ex_text))
    /\ UNCHANGED <<ex_text, ex_fn, ex_order>>
    /\ UNCHANGED nonExVars

CallExtractSocial ==
    /\ ex_fn = "scan.extract_social"
    /\ Len(ex_out) < MaxCalls
    /\ ex_out' = Append(ex_out, extract_social(ex_text))
    /\ UNCHANGED <<ex_text, ex_fn, ex_order>>
    /\ UNCHANGED nonExVars

\* validators.is_valid_website(url) on a url as a scraper found it
CallIsValidWebsite ==
    /\ ex_fn = "validators.is_valid_website"
    /\ Len(ex_out) < MaxCalls
    /\ ex_out' = Append(ex_out, is_valid_website(ex_text))
    /\ UNCHANGED <<ex_text, ex_fn, ex_order>>
    /\ UNCHANGED nonExVars

InitExtract ==
    /\ cwIdle
    /\ scanIdle
    /\ asIdle
    /\ sbIdle
    /\ pfIdle
    /\ jobIdle
    /\ \/ ex_text \in Texts /\ ex_fn \in PhoneExtractors \cup EmailExtractors
       \/ ex_text \in SocialTexts /\ ex_fn \in SocialExtractors
       \/ ex_text \in UrlInputs /\ ex_fn = "validators.is_valid_website"
    /\ ex_out = <<>>
    /\ ex_order = <<>>

NextExtract ==
    \/ CallExtractPhones \/ NewProcess \/ CallScanExtractPhones
    \/ CallExtractEmails \/ CallScanExtractEmails
    \/ CallExtractSocialMedia \/ CallExtractSocial
    \/ CallIsValidWebsite

SpecExtract == InitExtract /\ [][NextExtract]_vars

----------------------------------------------------------------------------

(* Listing cards, detail pages and the records assembled from them *)

\* " ".join(text.split()).strip() for texts whose only white space is " "
RECURSIVE squeeze(_)
squeeze(s) ==
    IF s = <<>> THEN <<>>
    ELSE IF Head(s) = " " /\ (Len(s) = 1 \/ s[2] = " ") THEN squeeze(Tail(s))
    ELSE <<Head(s)>> \o squeeze(Tail(s))
clean_text(text) ==
    LET s == squeeze(text)
    IN IF s # <<>> /\ Head(s) = " " THEN Tail(s) ELSE s

\* s[:n]
truncate(s, n) == IF Len(s) > n THEN SubSeq(s, 1, n) ELSE s
MaxAddressLen == 100

\* s.split("?")[0]
before_query(s) ==
    IF \E i \in 1..Len(s) : s[i] = "?"
    THEN SubSeq(s, 1, (CHOOSE i \in 1..Len(s) :
                          s[i] = "?" /\ \A j \in 1..(i - 1) : s[j] # "?") - 1)
    ELSE s

\* re.sub(r'^(tel\.?:?\s*)', '', phone, flags=re.IGNORECASE)
strip_tel_label(phone) ==
    LET l == text_lower(phone)
        dot == IF Len(l) >= 4 /\ l[4] = "." THEN 5 ELSE 4
        colon == IF Len(l) >= dot /\ l[dot] = ":" THEN dot + 1 ELSE dot
    IN IF Len(l) >= 3 /\ SubSeq(l, 1, 3) = <<"t", "e", "l">>
       THEN SubSeq(phone, RunEnd(l, colon, {" "}), Len(phone))
       ELSE phone

\* what a selector finds: nothing, or an element with its href and its text
NoElem == [present |-> FALSE, href |-> <<>>, text |-> <<>>]
Elem(href, text) == [present |-> TRUE, href |-> href, text |-> text]

TelElems == { NoElem,
              Elem(<<"t", "e", "l", ":", "+", "4", "8", " ", "9", "1", "2", " ", "3", "4", "5", " ", "6", "7", "8">>, <<"+", "4", "8", " ", "9", "1", "2", " ", "3", "4", "5", " ", "6", "7", "8">>),
              Elem(<<>>, <<" ", "t", "e", "l", ".", " ", "1", "2", "3", "4", "5">>) }
MailtoElems == { NoElem,
                 Elem(<<"m", "a", "i", "l", "t", "o", ":", "c", "@", "b", ".", "p", "l">>, <<>>),
                 Elem(<<"m", "a", "i", "l", "t", "o", ":", "x", "@", "o", "n", "e", "t", ".", "p", "l">>, <<>>),
                 Elem(<<"m", "a", "i", "l", "t", "o", ":", "b", "i", "u", "r", "o">>, <<>>) }
PageTexts == { <<>>, <<"t", "e", "l", " ", "6", "0", "1", "-", "2", "0", "2", "-", "3", "0", "3">>, <<"6", "0", "1", "-", "2", "0", "2", "-", "3", "0", "3", ",", " ", "a", "@", "b", ".", "p", "l">> }
CardAddresses == { <<>>, <<"u", "l", ".", " ", "K", "r", "o", "t", "k", "a", " ", "1">> }
DetailAddresses == { <<>>, <<" ", "u", "l", ".", " ", " ", "D", "l", "u", "g", "a", " ", "2">> }

PanoramaHref ==
    [pad |-> "", scheme |-> "https://", host |-> <<"panoramafirm.pl">>,
     port |-> "", path |-> <<"/oferta">>]
WwwHrefs == (Hrefs \ {h \in Hrefs : h.host = <<"gone.pl">>}) \cup {PanoramaHref}
WwwText ==
    [pad |-> "", scheme |-> "https://", host |-> <<"bakery.pl">>,
     port |-> "", path |-> <<>>]

\* the part of the html of a detail page that holds its profile anchors; the
\* social patterns match nowhere else in the page, and no phone or email
\* pattern matches in it
NoLink == <<>>
SocialHtmls ==
    { <<>>,
      <<"h", "r", "e", "f", "=", "'", "h", "t", "t", "p", "s", ":", "/", "/", "w", "w", "w", ".", "f", "a", "c", "e", "b", "o", "o", "k", ".", "c", "o", "m", "/", "s", "h", "a", "r", "e", "r", "/", "s", "h", "a", "r", "e", "r", ".", "p", "h", "p", "'", " ", "h", "r", "e", "f", "=", "'", "h", "t", "t", "p", "s", ":", "/", "/", "f", "a", "c", "e", "b", "o", "o", "k", ".", "c", "o", "m", "/", "p", "i", "e", "k", "a", "r", "n", "i", "a", "'">>,
      <<"h", "r", "e", "f", "=", "'", "h", "t", "t", "p", "s", ":", "/", "/", "w", "w", "w", ".", "i", "n", "s", "t", "a", "g", "r", "a", "m", ".", "c", "o", "m", "/", "P", "i", "e", "k", "a", "r", "n", "i", "a", "/", "'">>,
      <<"h", "r", "e", "f", "=", "'", "h", "t", "t", "p", "s", ":", "/", "/", "l", "i", "n", "k", "e", "d", "i", "n", ".", "c", "o", "m", "/", "c", "o", "m", "p", "a", "n", "y", "/", "p", "i", "e", "k", "a", "r", "n", "i", "a", "'">> }

CompanyName == <<"P", "i", "e", "k", "a", "r", "n", "i", "a", " ", "E", "w", "a">>
SpamName == <<"R", "e", "k", "l", "a", "m", "a">>

Card(name, tel, address, mailto, www, www_text) ==
    [name |-> name, tel |-> tel, address |-> address, mailto |-> mailto,
     www |-> www, www_text |-> www_text]
BlankCard(name) == Card(name, NoElem, <<>>, NoElem, EmptyUrl, EmptyUrl)

Page(fetched, tel, text, mailto, www, address, links) ==
    [fetched |-> fetched, tel |-> tel, text |-> text, mailto |-> mailto,
     www |-> www, address |-> address, links |-> links]
\* no detail page: the card has no link, or make_request returned None
NoPage == Page(FALSE, NoElem, <<>>, NoElem, EmptyUrl, <<>>, <<>>)
DetailPages ==
    { Page(TRUE, t, x, m, w, a, l) :
        t \in TelElems, x \in PageTexts, m \in MailtoElems, w \in WwwHrefs,
        a \in DetailAddresses, l \in SocialHtmls }

\* response.text of a detail page: everything the page holds, markup included
html(page) ==
    page.address \o <<"<">> \o page.tel.href \o <<">">> \o page.tel.text
    \o <<"<">> \o page.text \o <<"<">> \o page.mailto.href \o <<">">>
\* get_text() of the main content of a detail page
main_text(page) == page.tel.text \o <<" ">> \o page.text

\* the dataclass Business and the dict biz
BusinessRecord(name, address, phone, email, website, fb, ig, li, source, hw) ==
    [name |-> name, address |-> address, phone |-> phone, email |-> email,
     website |-> website, facebook |-> fb, instagram |-> ig,
     linkedin |-> li, source |-> source, has_website |-> hw]
\* Business(name=name, industry=industry, source=source)
NameOnly(name, source) ==
    BusinessRecord(name, <<>>, <<>>, <<>>, EmptyUrl, NoLink, NoLink, NoLink,
                   source, TRUE)

\* api/scan.py is_spam_name (the marker 'dodaj firmę' is written in ASCII)
SPAM_NAMES == { <<"p", "a", "n", "o", "r", "a", "m", "a", " ", "f", "i", "r", "m">>, <<"w", "e", "n", "e", "t">>, <<"p", "k", "t", ".", "p", "l">>, <<"d", "o", "d", "a", "j", " ", "f", "i", "r", "m", "e">>,
                <<"r", "e", "k", "l", "a", "m", "a">> }
MinNameLen == 3
is_spam_name(name) ==
    IF name = <<>> THEN TRUE
    ELSE (\E spam \in SPAM_NAMES : Contains(text_lower(name), spam))
         \/ Len(name) < MinNameLen

\* PanoramaFirmScraper._fetch_company_details: the records it can return
\* (phones[0] is any element when extract_phones found several)
_fetch_company_details(name, page) ==
    IF ~ page.fetched THEN { NameOnly(name, "panorama_firm") }
    ELSE
    LET address == clean_text(page.address)
        tel == IF ~ page.tel.present THEN <<>>
               ELSE IF replace_prefix(page.tel.href, <<"t", "e", "l", ":">>) # <<>>
                    THEN replace_prefix(page.tel.href, <<"t", "e", "l", ":">>)
                    ELSE clean_text(page.tel.text)
        mailto == IF page.mailto.present
                  THEN replace_prefix(page.mailto.href, <<"m", "a", "i", "l", "t", "o", ":">>) ELSE <<>>
        emails == extract_emails(html(page))
        email == IF mailto # <<>> THEN mailto
                 ELSE IF emails # <<>> THEN emails[1] ELSE <<>>
        website == IF is_valid_website(page.www) THEN page.www ELSE EmptyUrl
        social == extract_social_media(page.links)
    IN { BusinessRecord(name, address, phone, email, website, social.facebook,
                        social.instagram, social.linkedin, "panorama_firm",
                        website # EmptyUrl) :
           phone \in IF tel # <<>> THEN {tel}
                     ELSE { IF phones # <<>> THEN phones[1] ELSE <<>> :
                              phones \in extract_phones(html(page)) } }

\* PKTScraper._parse_result
_parse_result(card) ==
    LET text == IF card.tel.present THEN clean_text(card.tel.text) ELSE <<>>
        phone == IF text # <<>> THEN text
                 ELSE replace_prefix(card.tel.href, <<"t", "e", "l", ":">>)
        email == IF card.mailto.present
                 THEN replace_prefix(card.mailto.href, <<"m", "a", "i", "l", "t", "o", ":">>) ELSE <<>>
        website == pkt_parse_result("Alfa", card.www, card.www_text).website
    IN BusinessRecord(card.name, clean_text(card.address), strip_tel_label(phone),
                      email, website, NoLink, NoLink, NoLink, "pkt",
                      website # EmptyUrl)

\* GoogleMapsScraper._get_place_details: the place details are copied as they are
_get_place_details(place) ==
    BusinessRecord(place.name, place.address, place.tel.text, <<>>, place.www,
                   NoLink, NoLink, NoLink, "google_maps_api",
                   place.www # EmptyUrl)

----------------------------------------------------------------------------

(* Assembly of one record *)

Scrapers == {"scan_panoramafirm", "panorama_firm", "pkt", "google_maps"}

first_or_empty(l) == IF l # <<>> THEN l[1] ELSE <<>>

\* api/scan.py scrape_panoramafirm, lines 187-192: the phone of the card
card_phone(card) ==
    LET from_href == replace_prefix(card.tel.href, <<"t", "e", "l", ":">>)
        phone_text == IF from_href # <<>> THEN from_href ELSE card.tel.text
    IN IF card.tel.present THEN first_or_empty(scan_extract_phones(phone_text))
       ELSE <<>>

\* api/scan.py scrape_panoramafirm, lines 154-192: name, record, card data
ScanCard ==
    /\ as_scraper = "scan_panoramafirm" /\ as_pc = "card"
    /\ LET name == clean_text(as_card.name)
       IN IF is_spam_name(name)
          THEN /\ as_result' = "skipped" /\ as_pc' = "done"
               /\ UNCHANGED biz
          ELSE /\ biz' = [NameOnly(name, "panoramafirm") EXCEPT
                            !.has_website = FALSE,
                            !.address = truncate(clean_text(as_card.address),
                                                 MaxAddressLen),
                            !.phone = card_phone(as_card)]
               /\ as_pc' = "visit"
               /\ UNCHANGED as_result
    /\ UNCHANGED <<as_scraper, as_card, as_detail>>
    /\ UNCHANGED nonAsVars

\* lines 194-199: the detail page is visited only for a card without phone
ScanVisitDetail ==
    /\ as_scraper = "scan_panoramafirm" /\ as_pc = "visit"
    /\ as_pc' = IF biz.phone = <<>> /\ as_detail.fetched THEN "phone" ELSE "retain"
    /\ UNCHANGED <<as_scraper, as_card, as_detail, biz, as_result>>
    /\ UNCHANGED nonAsVars

\* variant: the main content is scanned before the phone section
ScanDetailPhone_main_content_first ==
    /\ as_scraper = "scan_panoramafirm" /\ as_pc = "phone"
    /\ LET scanned == IF biz.phone = <<>>
                      THEN first_or_empty(scan_extract_phones(as_detail.text))
                      ELSE biz.phone
           phone == IF scanned = <<>> /\ as_detail.tel.present
                    THEN first_or_empty(scan_extract_phones(as_detail.tel.text))
                    ELSE scanned
       IN biz' = [biz EXCEPT !.phone = phone]
    /\ as_pc' = "email"
    /\ UNCHANGED <<as_scraper, as_card, as_detail, as_result>>
    /\ UNCHANGED nonAsVars

\* lines 203-217: phone section first, then the main content
ScanDetailPhone ==
    /\ as_scraper = "scan_panoramafirm" /\ as_pc = "phone"
    /\ LET section == IF biz.phone = <<>> /\ as_detail.tel.present
                      THEN first_or_empty(scan_extract_phones(as_detail.tel.text))
                      ELSE biz.phone
           phone == IF section = <<>>
                    THEN first_or_empty(scan_extract_phones(main_text(as_detail)))
                    ELSE section
       IN biz' = [biz EXCEPT !.phone = phone]
    /\ as_pc' = "email"
    /\ UNCHANGED <<as_scraper, as_card, as_detail, as_result>>
    /\ UNCHANGED nonAsVars

\* lines 219-229: mailto link first, then the whole html
ScanDetailEmail ==
    /\ as_scraper = "scan_panoramafirm" /\ as_pc = "email"
    /\ LET email == before_query(replace_prefix(as_detail.mailto.href, <<"m", "a", "i", "l", "t", "o", ":">>))
           linked == IF as_detail.mailto.present /\ ~ is_spam_email(email)
                     THEN email ELSE biz.email
           found == IF linked = <<>>
                    THEN first_or_empty(scan_extract_emails(html(as_detail)))
                    ELSE linked
       IN biz' = [biz EXCEPT !.email = found]
    /\ as_pc' = "website"
    /\ UNCHANGED <<as_scraper, as_card, as_detail, as_result>>
    /\ UNCHANGED nonAsVars

\* "panoramafirm" in website.lower()
mentions_panoramafirm(u) == \E i \in DOMAIN u.host : u.host[i] = "panoramafirm.pl"

\* lines 231-237
ScanDetailWebsite ==
    /\ as_scraper = "scan_panoramafirm" /\ as_pc = "website"
    /\ biz' = IF as_detail.www # EmptyUrl /\ ~ mentions_panoramafirm(as_detail.www)
              THEN [biz EXCEPT !.website = as_detail.www, !.has_website = TRUE]
              ELSE biz
    /\ as_pc' = "address"
    /\ UNCHANGED <<as_scraper, as_card, as_detail, as_result>>
    /\ UNCHANGED nonAsVars

\* lines 239-243
ScanDetailAddress ==
    /\ as_scraper = "scan_panoramafirm" /\ as_pc = "address"
    /\ biz' = IF biz.address = <<>>
              THEN [biz EXCEPT !.address = truncate(clean_text(as_detail.address),
                                                    MaxAddressLen)]
              ELSE biz
    /\ as_pc' = "social"
    /\ UNCHANGED <<as_scraper, as_card, as_detail, as_result>>
    /\ UNCHANGED nonAsVars

\* lines 245-248
ScanDetailSocial ==
    /\ as_scraper = "scan_panoramafirm" /\ as_pc = "social"
    /\ LET social == extract_social(as_detail.links)
       IN biz' = [biz EXCEPT !.facebook = social.facebook,
                             !.instagram = social.instagram]
    /\ as_pc' = "retain"
    /\ UNCHANGED <<as_scraper, as_card, as_detail, as_result>>
    /\ UNCHANGED nonAsVars

\* lines 250-252: only a record with a name and some contact is appended
ScanRetain ==
    /\ as_scraper = "scan_panoramafirm" /\ as_pc = "retain"
    /\ as_result' = IF biz.name # <<>>
                       /\ (biz.phone # <<>> \/ biz.email # <<>>
                           \/ biz.facebook # NoLink)
                    THEN "kept" ELSE "dropped"
    /\ as_pc' = "done"
    /\ UNCHANGED <<as_scraper, as_card, as_detail, biz>>
    /\ UNCHANGED nonAsVars

\* PanoramaFirmScraper.search_businesses, lines 116-130
FetchCompanyDetails ==
    /\ as_scraper = "panorama_firm" /\ as_pc = "card"
    /\ LET name == clean_text(as_card.name)
       IN IF name = <<>>
          THEN /\ as_result' = "skipped" /\ as_pc' = "done"
               /\ UNCHANGED biz
          ELSE /\ \E business \in _fetch_company_details(name, as_detail) :
                     biz' = business
               /\ as_pc' = "yielded"
               /\ UNCHANGED as_result
    /\ UNCHANGED <<as_scraper, as_card, as_detail>>
    /\ UNCHANGED nonAsVars

\* PKTScraper.search_businesses, lines 112-116, and _parse_result
ParseResult ==
    /\ as_scraper = "pkt" /\ as_pc = "card"
    /\ LET name == clean_text(as_card.name)
       IN IF name = <<>>
          THEN /\ as_result' = "skipped" /\ as_pc' = "done"
               /\ UNCHANGED biz
          ELSE /\ biz' = _parse_result([as_card EXCEPT !.name = name])
               /\ as_pc' = "yielded"
               /\ UNCHANGED as_result
    /\ UNCHANGED <<as_scraper, as_card, as_detail>>
    /\ UNCHANGED nonAsVars

\* GoogleMapsScraper._search_with_api, lines 141-143
GetPlaceDetails ==
    /\ as_scraper = "google_maps" /\ as_pc = "card"
    /\ biz' = _get_place_details(as_card)
    /\ as_pc' = "yielded"
    /\ UNCHANGED <<as_scraper, as_card, as_detail, as_result>>
    /\ UNCHANGED nonAsVars

\* SzczecinBusinessScraper._scan_industry, lines 147-160 (run_scan, app.py
\* 86-94): the first business a scraper yields is appended as it is
AppendYielded ==
    /\ as_pc = "yielded"
    /\ as_result' = "kept"
    /\ as_pc' = "done"
    /\ UNCHANGED <<as_scraper, as_card, as_detail, biz>>
    /\ UNCHANGED nonAsVars

CardNames == { CompanyName, SpamName, <<>> }
TelCards == { Card(CompanyName, t, a, NoElem, EmptyUrl, EmptyUrl) :
                t \in TelElems, a \in CardAddresses }
\* the cards and pages a scraper can meet
CardsOf(scraper) ==
    { BlankCard(n) : n \in CardNames } \cup
    CASE scraper = "scan_panoramafirm" -> TelCards
      [] scraper = "panorama_firm" -> {}
      [] scraper = "pkt" ->
           { Card(CompanyName, t, a, m, w, x) :
               t \in TelElems, a \in CardAddresses, m \in MailtoElems,
               w \in WwwHrefs, x \in {EmptyUrl, WwwText} }
      [] scraper = "google_maps" ->
           { Card(CompanyName, t, a, NoElem, w, EmptyUrl) :
               t \in TelElems, a \in CardAddresses, w \in WwwHrefs }
PagesOf(scraper, card) ==
    IF scraper \in {"scan_panoramafirm", "panorama_firm"} /\ card.name = CompanyName
    THEN DetailPages \cup {NoPage}
    ELSE {NoPage}

InitAssemble ==
    /\ cwIdle
    /\ scanIdle
    /\ exIdle
    /\ sbIdle
    /\ pfIdle
    /\ jobIdle
    /\ as_scraper \in Scrapers
    /\ as_card \in CardsOf(as_scraper)
    /\ as_detail \in PagesOf(as_scraper, as_card)
    /\ as_pc = "card"
    /\ biz = NameOnly(<<>>, "")
    /\ as_result = "none"

NextAssemble ==
    \/ ScanCard \/ ScanVisitDetail \/ ScanDetailPhone \/ ScanDetailEmail
    \/ ScanDetailWebsite \/ ScanDetailAddress \/ ScanDetailSocial \/ ScanRetain
    \/ FetchCompanyDetails \/ ParseResult \/ GetPlaceDetails \/ AppendYielded

SpecAssemble == InitAssemble /\ [][NextAssemble]_vars

----------------------------------------------------------------------------

(* Combining the results of the sources for one industry *)

MaxCandidates == 2   \* businesses the scrapers yield to the cli or web scan

NamePrefixLen == 20

\* str.strip() for texts whose only white space is " "
RECURSIVE lstrip(_)
lstrip(s) == IF s # <<>> /\ Head(s) = " " THEN lstrip(Tail(s)) ELSE s
RECURSIVE rstrip(_)
rstrip(s) ==
    IF s # <<>> /\ s[Len(s)] = " " THEN rstrip(SubSeq(s, 1, Len(s) - 1)) ELSE s
text_strip(s) == rstrip(lstrip(s))

\* biz["name"].lower()[:20]
prefix_key(name) == truncate(text_lower(name), NamePrefixLen)
\* business.name.lower().strip()
full_key(name) == text_strip(text_lower(name))

FoundNames == { <<"Z", "a", "k", "l", "a", "d", " ", "F", "r", "y", "z", "j", "e", "r", "s", "k", "i", " ", "E", "w", "a">>, <<"Z", "A", "K", "L", "A", "D", " ", "F", "R", "Y", "Z", "J", "E", "R", "S", "K", "I", " ", "E", "W", "A">>,
                <<"Z", "a", "k", "l", "a", "d", " ", "F", "r", "y", "z", "j", "e", "r", "s", "k", "i", " ", "E", "w", "e", "l", "i", "n", "a">>, <<"B", "a", "r", " ", "R", "y", "b", "a">> }
FoundPhones == { <<>>, <<"9", "1", "2", "3", "4", "5", "6", "7", "8">>, <<"6", "0", "1", "2", "0", "2", "3", "0", "3">> }

\* the fields of a result that the combining code reads
Found(name, phone, source) == [name |-> name, phone |-> phone, source |-> source]

\* scrape_panoramafirm returns at most max_results records, no two with the
\* same lower-cased name; scrape_pkt at most max_results // 2, each with a phone
DistinctNames(l) ==
    \A i, j \in 1..Len(l) : i # j => text_lower(l[i].name) # text_lower(l[j].name)
pf_results(max_results) ==
    { l \in SeqsUpTo({ Found(n, p, "panoramafirm") : n \in FoundNames,
                                                    p \in FoundPhones },
                     max_results) : DistinctNames(l) }
pkt_results(max_results) ==
    { l \in SeqsUpTo({ Found(n, p, "pkt") : n \in FoundNames,
                                           p \in FoundPhones \ {<<>>} },
                     max_results \div 2) : DistinctNames(l) }
\* what the search_businesses generators yield, one source after the other
Yielded ==
    SeqsUpTo({ Found(n, p, "panorama_firm") : n \in FoundNames, p \in FoundPhones },
             MaxCandidates)

\* api/scan.py scrape_businesses, lines 342-359: one turn of the loop
Combine ==
    /\ sb_mode = "api" /\ sb_pc = "loop"
    /\ sb_i <= Len(sb_candidates) /\ Len(sb_all) < sb_max
    /\ LET b == sb_candidates[sb_i]
           key == prefix_key(b.name)
       IN IF (b.phone # <<>> /\ b.phone \in sb_seen_phones)
             \/ key \in sb_seen_names
          THEN UNCHANGED <<sb_seen_phones, sb_seen_names, sb_all, sb_kept>>
          ELSE /\ sb_seen_phones' = IF b.phone # <<>>
                                    THEN sb_seen_phones \cup {b.phone}
                                    ELSE sb_seen_phones
               /\ sb_seen_names' = sb_seen_names \cup {key}
               /\ sb_all' = Append(sb_all, b)
               /\ sb_kept' = sb_kept \cup {sb_i}
    /\ sb_i' = sb_i + 1
    /\ UNCHANGED <<sb_mode, sb_max, sb_candidates, sb_pc>>
    /\ UNCHANGED nonSbVars

\* lines 343-344 and 361-364: the loop ends, the list is shuffled and cut
Shuffle ==
    /\ sb_mode = "api" /\ sb_pc = "loop"
    /\ sb_i > Len(sb_candidates) \/ Len(sb_all) >= sb_max
    /\ \E order \in ListsOf(1..Len(sb_all)) :
          sb_all' = truncate([k \in 1..Len(sb_all) |-> sb_all[order[k]]], sb_max)
    /\ sb_pc' = "done"
    /\ UNCHANGED <<sb_mode, sb_max, sb_candidates, sb_i, sb_seen_phones,
                   sb_seen_names, sb_kept>>
    /\ UNCHANGED nonSbVars

\* main.py _scan_industry, lines 143-160, and app.py run_scan, lines 82-94:
\* one business taken from a search_businesses generator
TakeYielded ==
    /\ sb_mode \in {"cli", "web"} /\ sb_pc = "loop"
    /\ sb_i <= Len(sb_candidates)
    /\ LET business == sb_candidates[sb_i]
           key == full_key(business.name)
       IN IF key \in sb_seen_names
          THEN UNCHANGED <<sb_seen_names, sb_all, sb_kept>>
          ELSE /\ sb_seen_names' = sb_seen_names \cup {key}
               /\ sb_all' = Append(sb_all, business)
               /\ sb_kept' = sb_kept \cup {sb_i}
    /\ sb_i' = sb_i + 1
    /\ sb_pc' = IF sb_i = Len(sb_candidates) THEN "done" ELSE "loop"
    /\ UNCHANGED <<sb_mode, sb_max, sb_candidates, sb_seen_phones>>
    /\ UNCHANGED nonSbVars

InitCombine ==
    /\ cwIdle
    /\ scanIdle
    /\ exIdle
    /\ asIdle
    /\ pfIdle
    /\ jobIdle
    /\ sb_mode \in {"api", "cli", "web"}
    /\ sb_max \in 1..MaxResults
    /\ sb_candidates \in
         IF sb_mode = "api"
         THEN { pf \o pkt : pf \in pf_results(sb_max), pkt \in pkt_results(sb_max) }
         ELSE Yielded
    /\ sb_i = 1
    /\ sb_seen_phones = {} /\ sb_seen_names = {} /\ sb_all = <<>>
    /\ sb_kept = {}
    /\ sb_pc = "loop"

NextCombine == Combine \/ Shuffle \/ TakeYielded

SpecCombine == InitCombine /\ [][NextCombine]_vars

----------------------------------------------------------------------------

(* One run seen from the network: PanoramaFirmScraper.search_businesses for *)
(* one industry, then the verification loop of the orchestrator             *)

MaxLinks == 2          \* company links on one listing page
MaxPagesServed == 6    \* listing pages the directory serves to one call

PageLimit == 5
VerifyDelayEvery == 10

\* a company link of a listing page: "named" has a name and an href, "blank"
\* lacks one of them
ListingLinks == SeqsUpTo({"named", "blank"}, MaxLinks)
\* what make_request(url) gives for a listing page
NoListing == [kind |-> "none", links |-> <<>>, next |-> FALSE]
ListingRaised == [kind |-> "raised", links |-> <<>>, next |-> FALSE]
Listings ==
    {NoListing, ListingRaised}
    \cup [kind : {"page"}, links : ListingLinks, next : BOOLEAN]

\* whether events has two fetches with nothing in between
BackToBack(events) ==
    \E i \in 1..(Len(events) - 1) : events[i] = "fetch" /\ events[i + 1] = "fetch"
\* the run issues events, in this order
Issue(events) ==
    /\ net_last' = IF events = <<>> THEN net_last ELSE events[Len(events)]
    /\ net_back_to_back' = (net_back_to_back \/ BackToBack(<<net_last>> \o events))

\* panorama_firm.py 83-113: the while test, the listing fetch and the breaks
\* that follow it
FetchListing ==
    /\ pf_pc = "while"
    /\ pf_results_count < pf_max
    /\ pf_fetched < MaxPagesServed
    /\ \E listing \in Listings :
         /\ pf_links' = listing.links
         /\ pf_next_link' = listing.next
         /\ pf_pc' = IF listing.links = <<>> THEN "after" ELSE "for"
    /\ pf_fetched' = pf_fetched + 1
    /\ Issue(<<"fetch">>)
    /\ UNCHANGED <<pf_mode, pf_max, pf_page, pf_results_count, pf_websites, pf_vi>>
    /\ UNCHANGED nonPfVars

\* line 83: the while test fails
WhileExit ==
    /\ pf_pc = "while"
    /\ pf_results_count >= pf_max
    /\ pf_pc' = "after"
    /\ UNCHANGED <<pf_mode, pf_max, pf_page, pf_results_count, pf_links,
                   pf_next_link, pf_fetched, pf_websites, pf_vi, net_last,
                   net_back_to_back>>
    /\ UNCHANGED nonPfVars

\* lines 115-136: one turn of the for loop. _fetch_company_details fetches
\* the detail page and always returns a Business
ProcessLink ==
    /\ pf_pc = "for"
    /\ pf_links # <<>>
    /\ pf_results_count < pf_max
    /\ IF Head(pf_links) = "blank"
       THEN /\ Issue(<<>>)
            /\ UNCHANGED <<pf_results_count, pf_websites>>
       ELSE /\ Issue(<<"fetch", "delay">>)
            /\ pf_results_count' = pf_results_count + 1
            /\ \E website \in BOOLEAN : pf_websites' = Append(pf_websites, website)
    /\ pf_links' = Tail(pf_links)
    /\ UNCHANGED <<pf_mode, pf_max, pf_page, pf_next_link, pf_fetched, pf_vi, pf_pc>>
    /\ UNCHANGED nonPfVars

\* lines 116-117 and 138-148: the for loop is left, pagination
Paginate ==
    /\ pf_pc = "for"
    /\ pf_links = <<>> \/ pf_results_count >= pf_max
    /\ IF (~ pf_next_link /\ pf_page < PageLimit) \/ pf_next_link
       THEN /\ pf_page' = pf_page + 1
            /\ Issue(<<"delay">>)
            /\ pf_pc' = "while"
       ELSE /\ pf_pc' = "after"
            /\ UNCHANGED <<pf_page, net_last, net_back_to_back>>
    /\ UNCHANGED <<pf_mode, pf_max, pf_results_count, pf_links, pf_next_link,
                   pf_fetched, pf_websites, pf_vi>>
    /\ UNCHANGED nonPfVars

\* the generator has returned or raised: main.py 163-167 and 111 delay before
\* the verification, app.py 96-102 goes straight to it
AfterSearch ==
    /\ pf_pc = "after"
    /\ Issue(IF pf_mode = "cli" THEN <<"delay">> ELSE <<>>)
    /\ pf_pc' = IF pf_websites = <<>> THEN "done" ELSE "verify"
    /\ pf_vi' = 0
    /\ UNCHANGED <<pf_mode, pf_max, pf_page, pf_results_count, pf_links,
                   pf_next_link, pf_fetched, pf_websites>>
    /\ UNCHANGED nonPfVars

\* one turn of the verification loop: main.py 176-197, app.py 104-116
VerifyWebsite ==
    /\ pf_pc = "verify"
    /\ Issue(IF ~ pf_websites[pf_vi + 1] THEN <<>>
             ELSE IF pf_mode = "cli" /\ pf_vi % VerifyDelayEvery = 0
                  THEN <<"fetch", "delay">>
                  ELSE <<"fetch">>)
    /\ pf_vi' = pf_vi + 1
    /\ pf_pc' = IF pf_vi + 1 = Len(pf_websites) THEN "done" ELSE "verify"
    /\ UNCHANGED <<pf_mode, pf_max, pf_page, pf_results_count, pf_links,
                   pf_next_link, pf_fetched, pf_websites>>
    /\ UNCHANGED nonPfVars

InitSearch ==
    /\ cwIdle
    /\ scanIdle
    /\ exIdle
    /\ asIdle
    /\ sbIdle
    /\ jobIdle
    /\ pf_mode \in {"cli", "web"}
    /\ pf_max \in 1..MaxResults
    /\ pf_page = 1 /\ pf_results_count = 0
    /\ pf_links = <<>> /\ pf_next_link = FALSE /\ pf_fetched = 0
    /\ pf_websites = <<>> /\ pf_vi = 0 /\ pf_pc = "while"
    /\ net_last = "none" /\ net_back_to_back = FALSE

NextSearch ==
    \/ FetchListing \/ WhileExit \/ ProcessLink \/ Paginate
    \/ AfterSearch \/ VerifyWebsite

SpecSearch == InitSearch /\ [][NextSearch]_vars

----------------------------------------------------------------------------

(* The web application: scan jobs, their background threads and the request *)
(* handlers that poll them                                                   *)

MaxFound == 6          \* businesses one job collects over all its industries

ScanShare == 80
VerifyBase == 85
VerifyShare == 10
ProgressEvery == 5
ExportProgress == 95
FullProgress == 100

\* the job ids uuid4 hands out
JobIds == {"j1", "j2"}

\* the fields of a ScanJob that run_scan writes and the handlers read:
\* businesses and businesses_without_website are the lengths of the lists,
\* started_at and completed_at are TRUE when they hold a time; job.industries,
\* which only the loop of run_scan reads, is kept as total_industries
JobRecord(status, progress, businesses, without, error, output_file, started_at, completed_at) ==
    [status |-> status, progress |-> progress,
     businesses |-> businesses, businesses_without_website |-> without,
     error |-> error, output_file |-> output_file,
     started_at |-> started_at, completed_at |-> completed_at]
\* scan_jobs.get(job_id) finds nothing
NoJob == JobRecord("none", 0, 0, 0, "", "", FALSE, FALSE)
ScanJob == JobRecord("pending", 0, 0, 0, "", "", FALSE, FALSE)

\* what a handler sends back
Reply(kind, job_id, code, body) == [kind |-> kind, job_id |-> job_id, code |-> code, body |-> body]
NoReply == [kind |-> "none"]
to_dict(j) ==
    [status |-> j.status, progress |-> j.progress, total_found |-> j.businesses,
     without_website |-> j.businesses_without_website, error |-> j.error,
     output_file |-> j.output_file, started_at |-> j.started_at,
     completed_at |-> j.completed_at]

\* the thread of a job has not run a statement of run_scan yet
ThreadStarted == "started"
threadUnchanged == UNCHANGED <<run_pc, total_industries, run_idx, run_i>>

\* a start_scan that calls run_scan itself and responds when it returned
StartScan_running_inline ==
    /\ \E n \in 0..MaxIndustries, id \in JobIds :
         /\ scan_jobs[id].status = "none"
         /\ IF n = 0
            THEN /\ reply' = Reply("start_scan", id, 400, "error")
                 /\ UNCHANGED <<scan_jobs, run_pc, total_industries>>
            ELSE /\ scan_jobs' = [scan_jobs EXCEPT ![id] =
                        [ScanJob EXCEPT !.status = "completed",
                                           !.progress = FullProgress,
                                           !.started_at = TRUE,
                                           !.completed_at = TRUE]]
                 /\ run_pc' = [run_pc EXCEPT ![id] = "done"]
                 /\ UNCHANGED total_industries
                 /\ reply' = Reply("start_scan", id, 200, "started")
    /\ actor' = <<"start_scan">>
    /\ UNCHANGED <<run_idx, run_i>>
    /\ UNCHANGED nonJobVars

\* start_scan: with no industries a 400; else the job is put into scan_jobs,
\* its thread is started and the response is returned
StartScan ==
    /\ \E n \in 0..MaxIndustries, id \in JobIds :
         /\ scan_jobs[id].status = "none"
         /\ IF n = 0
            THEN /\ reply' = Reply("start_scan", id, 400, "error")
                 /\ UNCHANGED <<scan_jobs, run_pc, total_industries>>
            ELSE /\ scan_jobs' = [scan_jobs EXCEPT ![id] = ScanJob]
                 /\ run_pc' = [run_pc EXCEPT ![id] = ThreadStarted]
                 /\ total_industries' = [total_industries EXCEPT ![id] = n]
                 /\ reply' = Reply("start_scan", id, 200, "started")
    /\ actor' = <<"start_scan">>
    /\ UNCHANGED <<run_idx, run_i>>
    /\ UNCHANGED nonJobVars

ScanStatus ==
    /\ \E id \in JobIds :
         reply' = IF scan_jobs[id].status = "none"
                  THEN Reply("scan_status", id, 404, "error")
                  ELSE Reply("scan_status", id, 200, to_dict(scan_jobs[id]))
    /\ actor' = <<"scan_status">>
    /\ UNCHANGED scan_jobs
    /\ threadUnchanged
    /\ UNCHANGED nonJobVars

ScanResults ==
    /\ \E id \in JobIds :
         reply' = IF scan_jobs[id].status = "none"
                  THEN Reply("scan_results", id, 404, "error")
                  ELSE Reply("scan_results", id, 200,
                             [businesses |-> scan_jobs[id].businesses_without_website,
                              total |-> scan_jobs[id].businesses_without_website])
    /\ actor' = <<"scan_results">>
    /\ UNCHANGED scan_jobs
    /\ threadUnchanged
    /\ UNCHANGED nonJobVars

DownloadResults ==
    /\ \E id \in JobIds :
         reply' = IF scan_jobs[id].status = "none" \/ scan_jobs[id].output_file = ""
                  THEN Reply("download_results", id, 404, "error")
                  ELSE Reply("download_results", id, 200, scan_jobs[id].output_file)
    /\ actor' = <<"download_results">>
    /\ UNCHANGED scan_jobs
    /\ threadUnchanged
    /\ UNCHANGED nonJobVars

----------------------------------------------------------------------------

(* run_scan of one job, statement by statement *)

\* the positions of run_scan up to the end of the loop over job.industries
LoopPositions == {"setup", "search"}

\* one step of the thread of job id: the job and the position it leaves;
\* total_industries goes out of use when the loop is left
ThreadStep(id, j, pc) ==
    /\ scan_jobs' = [scan_jobs EXCEPT ![id] = j]
    /\ run_pc' = [run_pc EXCEPT ![id] = pc]
    /\ actor' = <<"run_scan", id>>
    /\ reply' = NoReply
    /\ total_industries' = [total_industries EXCEPT ![id] = IF pc \in LoopPositions THEN @ ELSE 0]
    /\ UNCHANGED nonJobVars

\* int((idx / total_industries) * 80)
scan_progress(idx, total) == (idx * ScanShare) \div total
\* 85 + int((i / len(job.businesses)) * 10)
verify_progress(i, total) == VerifyBase + ((i * VerifyShare) \div total)

\* job.status = "running"; job.started_at = datetime.now()
SetRunning(id) ==
    /\ run_pc[id] = ThreadStarted
    /\ ThreadStep(id, [scan_jobs[id] EXCEPT !.status = "running", !.started_at = TRUE], "setup")
    /\ UNCHANGED <<run_idx, run_i>>

\* the scraper and the checker are constructed and the loop over
\* job.industries is entered: the progress of the first industry
FirstIndustry(id) ==
    /\ run_pc[id] = "setup"
    /\ ThreadStep(id, [scan_jobs[id] EXCEPT !.progress = scan_progress(0, total_industries[id])], "search")
    /\ run_idx' = [run_idx EXCEPT ![id] = 0]
    /\ UNCHANGED run_i

\* search_businesses yields a business with a new name
AppendBusiness(id) ==
    /\ run_pc[id] = "search"
    /\ scan_jobs[id].businesses < MaxFound
    /\ ThreadStep(id, [scan_jobs[id] EXCEPT !.businesses = @ + 1], "search")
    /\ UNCHANGED <<run_idx, run_i>>

\* search_businesses is exhausted, or raises and the loop continues: the
\* progress of the next industry
NextIndustry(id) ==
    /\ run_pc[id] = "search"
    /\ run_idx[id] + 1 < total_industries[id]
    /\ ThreadStep(id, [scan_jobs[id] EXCEPT !.progress = scan_progress(run_idx[id] + 1, total_industries[id])], "search")
    /\ run_idx' = [run_idx EXCEPT ![id] = @ + 1]
    /\ UNCHANGED run_i

\* the same after the last industry
BeginVerify(id) ==
    /\ run_pc[id] = "search"
    /\ run_idx[id] + 1 = total_industries[id]
    /\ ThreadStep(id, [scan_jobs[id] EXCEPT !.progress = VerifyBase], "verify")
    /\ run_idx' = [run_idx EXCEPT ![id] = 0]
    /\ run_i' = [run_i EXCEPT ![id] = 0]

\* one round of the verification loop: has_website of the business is set
CheckOne(id) ==
    /\ run_pc[id] = "verify"
    /\ run_i[id] < scan_jobs[id].businesses
    /\ ThreadStep(id, IF run_i[id] % ProgressEvery = 0
                      THEN [scan_jobs[id] EXCEPT !.progress = verify_progress(run_i[id], scan_jobs[id].businesses)]
                      ELSE scan_jobs[id], "verify")
    /\ run_i' = [run_i EXCEPT ![id] = @ + 1]
    /\ UNCHANGED run_idx

\* how many of the businesses the checks leave without a website
LeadCounts(businesses) == 0..businesses

\* the businesses whose has_website is False are kept, and the export begins
FilterLeads(id) ==
    /\ run_pc[id] = "verify"
    /\ run_i[id] = scan_jobs[id].businesses
    /\ \E leads \in LeadCounts(scan_jobs[id].businesses) :
         ThreadStep(id, [scan_jobs[id] EXCEPT !.businesses_without_website = leads,
                                              !.progress = ExportProgress], "export")
    /\ run_i' = [run_i EXCEPT ![id] = 0]
    /\ UNCHANGED run_idx

\* the leads are written to a file, when there are any
Export(id) ==
    /\ run_pc[id] = "export"
    /\ ThreadStep(id, IF scan_jobs[id].businesses_without_website > 0
                      THEN [scan_jobs[id] EXCEPT !.output_file = "firmy_szczecin.xlsx"]
                      ELSE scan_jobs[id], "set_status")
    /\ UNCHANGED <<run_idx, run_i>>

\* job.status = "completed"
SetCompleted(id) ==
    /\ run_pc[id] = "set_status"
    /\ ThreadStep(id, [scan_jobs[id] EXCEPT !.status = "completed"], "set_progress")
    /\ UNCHANGED <<run_idx, run_i>>

\* job.progress = 100
SetFullProgress(id) ==
    /\ run_pc[id] = "set_progress"
    /\ ThreadStep(id, [scan_jobs[id] EXCEPT !.progress = FullProgress], "set_completed_at")
    /\ UNCHANGED <<run_idx, run_i>>

\* job.completed_at = datetime.now()
SetCompletedAt(id) ==
    /\ run_pc[id] = "set_completed_at"
    /\ ThreadStep(id, [scan_jobs[id] EXCEPT !.completed_at = TRUE], "done")
    /\ UNCHANGED <<run_idx, run_i>>

\* the statements outside the inner try that can raise: the constructors and
\* the export
CanRaise(id) ==
    \/ run_pc[id] = "setup"
    \/ run_pc[id] = "export" /\ scan_jobs[id].businesses_without_website > 0

\* the except clause of run_scan after a raise inside the completion block
ExceptClause_after_completed(id) ==
    /\ CanRaise(id) \/ run_pc[id] \in {"set_progress", "set_completed_at"}
    /\ ThreadStep(id, [scan_jobs[id] EXCEPT !.status = "error", !.error = "raised",
                                            !.completed_at = TRUE], "done")
    /\ UNCHANGED <<run_idx, run_i>>

\* the except clause of run_scan
ExceptClause(id) ==
    /\ CanRaise(id)
    /\ ThreadStep(id, [scan_jobs[id] EXCEPT !.status = "error", !.error = "raised",
                                            !.completed_at = TRUE], "done")
    /\ UNCHANGED <<run_idx, run_i>>

InitJob ==
    /\ scan_jobs = [id \in JobIds |-> NoJob]
    /\ run_pc = [id \in JobIds |-> "none"]
    /\ total_industries = [id \in JobIds |-> 0]
    /\ run_idx = [id \in JobIds |-> 0]
    /\ run_i = [id \in JobIds |-> 0]
    /\ actor = <<"none">>
    /\ reply = NoReply
    /\ cwIdle /\ scanIdle /\ exIdle /\ asIdle /\ sbIdle /\ pfIdle

run_scan ==
    \E id \in JobIds :
        \/ SetRunning(id) \/ FirstIndustry(id) \/ AppendBusiness(id)
        \/ NextIndustry(id) \/ BeginVerify(id) \/ CheckOne(id)
        \/ FilterLeads(id) \/ Export(id) \/ SetCompleted(id)
        \/ SetFullProgress(id) \/ SetCompletedAt(id) \/ ExceptClause(id)

NextJob ==
    \/ StartScan \/ ScanStatus \/ ScanResults \/ DownloadResults
    \/ run_scan

SpecJob == InitJob /\ [][NextJob]_vars

----------------------------------------------------------------------------

(* Properties of one check_website call *)

\* the url the call works on
Normalized == _normalize_url(cw_arg)
\* the host name of the url is known to DNS
HostResolves(u) == u.host \in ResolvingHosts
PassesClassifier == cw_arg # EmptyUrl /\ is_valid_website(Normalized)

Gets == { i \in DOMAIN cw_log : cw_log[i].op = "get" }
Lookups == { i \in DOMAIN cw_log : cw_log[i].op = "dns" }
Returned == cw_pc = "done"
Flags(st) == <<st.exists, st.is_active, st.is_company_site>>
\* the call obtained a response, on the primary or on the plain-HTTP request
GotResponse == Returned /\ cw_resp.kind = "response"
ViaFallback == \E i \in Gets : cw_log[i].out.kind = "SSLError"

\* C1: for a url that passes the validity classifier and whose host does not
\* resolve, no HTTP request is ever issued and the call returns exists=false,
\* is_active=false with the DNS-failure error; in every call a GET is issued
\* only after a DNS lookup that succeeded.
C1_DnsFailureNoHttp ==
    /\ \A i \in Gets : \E j \in Lookups : j < i /\ cw_log[j].out.kind = "ok"
    /\ (PassesClassifier /\ ~ HostResolves(Normalized)) =>
         /\ Gets = {}
         /\ Returned =>
              /\ cw_result.kind = "status"
              /\ ~ cw_result.exists /\ ~ cw_result.is_active
              /\ cw_result.error # ""
              /\ cw_log[1].out.kind = "gaierror" => cw_result.error = ERR_DNS

C1_Witness ==
    /\ Returned /\ PassesClassifier /\ ~ HostResolves(Normalized)
    /\ Len(cw_log) = 1 /\ cw_log[1].op = "dns" /\ cw_log[1].out.kind = "gaierror"
    /\ cw_result.error = ERR_DNS

\* the error tag that records a failed network operation
TagOf(out, fallback) ==
    IF fallback THEN ERR_SSL
    ELSE CASE out.kind = "gaierror" -> ERR_DNS
           [] out.kind = "Timeout" -> ERR_TIMEOUT
           [] out.kind = "ConnectionError" -> ERR_CONNECTION
           [] OTHER -> out.msg

\* C2: whatever the DNS and HTTP layers do, the call ends by returning a
\* WebsiteStatus, never by an exception, and when its last network operation
\* failed the status has exists=false and the error field holds the tag of
\* that failure.
C2_NoExceptionEscapes ==
    /\ cw_result.kind # "raised"
    /\ Returned =>
         /\ cw_result.kind = "status"
         /\ \A i \in DOMAIN cw_log :
              (i = Len(cw_log) /\ cw_log[i].out.kind \notin {"ok", "response"}) =>
                 /\ cw_result.error # ""
                 /\ cw_result.error = TagOf(cw_log[i].out, ViaFallback)
                 /\ ~ cw_result.exists

C2_Witness ==
    /\ Returned /\ ViaFallback /\ Len(cw_log) = 3
    /\ cw_log[3].out.kind = "Timeout"
    /\ cw_result.kind = "status" /\ cw_result.error = ERR_SSL

\* C3: a url that fails the validity classifier is answered with
\* exists=false, is_active=false, is_company_site=false and the
\* not-a-company-site error, and the call performs no DNS lookup and no HTTP
\* request.
C3_RejectedWithoutNetwork ==
    (cw_arg # EmptyUrl /\ ~ is_valid_website(Normalized)) =>
       /\ cw_log = <<>>
       /\ Returned =>
            /\ cw_result.kind = "status"
            /\ Flags(cw_result) = <<FALSE, FALSE, FALSE>>
            /\ cw_result.error = ERR_NOT_COMPANY

C3_Witness ==
    /\ Returned /\ cw_arg.host = <<"m.", "facebook.com">>
    /\ ~ is_valid_website(Normalized)
    /\ cw_result.error = ERR_NOT_COMPANY /\ cw_log = <<>>

\* C4: whenever the response the call evaluates has a final status >= 400,
\* on the primary request or on the plain-HTTP request after a TLS failure,
\* the returned status has exists=false, is_active=false,
\* is_company_site=false and carries that status code.
C4_HttpErrorOnEveryPath ==
    (GotResponse /\ cw_resp.status_code >= HttpErrorFrom) =>
       /\ Flags(cw_result) = <<FALSE, FALSE, FALSE>>
       /\ cw_result.status_code = cw_resp.status_code

\* C5: for a response with final status < 400 whose body matches a parking
\* pattern or whose visible text is shorter than 100 characters, the call
\* returns exists=true, is_active=false, is_company_site=false with the
\* parking error tag, also when the body matches a placeholder pattern.
C5_ParkedResponse ==
    (GotResponse /\ cw_resp.status_code < HttpErrorFrom
       /\ (\/ \E i \in DOMAIN cw_resp.text : lower(cw_resp.text[i]) \in PARKING_PATTERNS
           \/ VisibleLen(cw_resp.text) < MinVisibleText)) =>
       /\ Flags(cw_result) = <<TRUE, FALSE, FALSE>>
       /\ cw_result.error = ERR_PARKING

\* C6: for a response with final status < 400, obtained on the primary or on
\* the plain-HTTP request, whose body matches a placeholder pattern and not
\* the parking heuristic, the result is exists=true, is_active=false,
\* is_company_site=false with the placeholder error tag; is_active=true
\* together with is_company_site=true is returned only when neither heuristic
\* matches the body.
C6_PlaceholderOnEveryPath ==
    /\ (GotResponse /\ cw_resp.status_code < HttpErrorFrom
          /\ _is_placeholder_page(cw_resp.text) /\ ~ _is_parking_page(cw_resp.text)) =>
         /\ Flags(cw_result) = <<TRUE, FALSE, FALSE>>
         /\ cw_result.error = ERR_PLACEHOLDER
    /\ (Returned /\ cw_result.is_active /\ cw_result.is_company_site) =>
         /\ cw_resp.kind = "response"
         /\ ~ _is_parking_page(cw_resp.text)
         /\ ~ _is_placeholder_page(cw_resp.text)

\* C7: a call issues at most one GET, except after a TLS failure of the
\* first GET, where it issues exactly one more GET, over plain HTTP, and
\* returns; a timeout or a connection failure of the first GET ends the call
\* with exists=false and an error tag of its own, with no further request;
\* no step is taken twice.
C7_AtMostOneRetry ==
    /\ Cardinality(Gets) <= 2
    /\ Cardinality(Lookups) <= 1
    /\ Len(cw_log) <= 3
    /\ \A i \in Gets : \A j \in Gets :
         i < j => /\ cw_log[i].out.kind = "SSLError"
                  /\ cw_log[j].url.scheme = "http://"
                  /\ Returned
    /\ Returned =>
         \A i \in Gets :
            /\ cw_log[i].out.kind = "SSLError" => Cardinality(Gets) = 2
            /\ (i = 2 /\ cw_log[i].out.kind = "Timeout") =>
                 /\ Cardinality(Gets) = 1 /\ ~ cw_result.exists
                 /\ cw_result.error = ERR_TIMEOUT
            /\ (i = 2 /\ cw_log[i].out.kind = "ConnectionError") =>
                 /\ Cardinality(Gets) = 1 /\ ~ cw_result.exists
                 /\ cw_result.error = ERR_CONNECTION
    /\ ERR_TIMEOUT # ERR_CONNECTION /\ ERR_TIMEOUT # ERR_SSL /\ ERR_CONNECTION # ERR_SSL

C7_Witness ==
    /\ Returned /\ Cardinality(Gets) = 2
    /\ cw_log[2].out.kind = "SSLError" /\ cw_log[3].url.scheme = "http://"
    /\ cw_log[3].out.kind = "response"

----------------------------------------------------------------------------
(* Properties of a scan *)

ScanOver == phase \in {"filter", "done"}
\* the scan was configured to run the verification phase
Verifying == mode = "web" \/ verify_websites
Confirmed(status) ==
    status.kind = "status" /\ status.exists /\ status.is_active /\ status.is_company_site

\* C8: after the verification phase a business has has_website=true only if
\* its website is non-empty and its check returned exists, is_active and
\* is_company_site all true; when no verification is run, has_website is true
\* only if a website that passes the validity classifier is present.
C8_HasWebsiteOnlyIfConfirmed ==
    ScanOver =>
      \A i \in DOMAIN all_businesses :
         all_businesses[i].has_website =>
            /\ all_businesses[i].website # EmptyUrl
            /\ IF Verifying
               THEN /\ i \in DOMAIN verify_log
                    /\ verify_log[i].checked
                    /\ Confirmed(verify_log[i].status)
               ELSE is_valid_website(all_businesses[i].website)

\* the check ended in a DNS failure, a timeout, a connection or TLS failure,
\* an HTTP error status or an exception
Unverifiable(status) ==
    \/ status.kind = "raised"
    \/ status.error \in {ERR_DNS, ERR_TIMEOUT, ERR_CONNECTION, ERR_SSL}
    \/ status.error \in { o.msg : o \in { x \in Failures : x.kind = "Exception" } }
    \/ status.error = DnsOut("UnicodeError").msg
    \/ status.status_code >= HttpErrorFrom

\* C9: a business whose liveness check ended in a failure gets
\* has_website=false, and the verification loop still checks every business
\* after it: it advances by one business per iteration whatever the outcome
\* and ends only after the last business.
C9_UnverifiableDoesNotBlock ==
    /\ \A i \in DOMAIN verify_log :
         (verify_log[i].checked /\ Unverifiable(verify_log[i].status)) =>
            /\ ~ all_businesses[i].has_website
            /\ has_no_website(all_businesses[i], verify_log[i].status)
    /\ phase = "verify" =>
         /\ vi <= Len(all_businesses)
         /\ Len(verify_log) = vi - 1
    /\ (ScanOver /\ Verifying) => Len(verify_log) = Len(all_businesses)

C9_Witness ==
    /\ phase = "done" /\ Len(all_businesses) = 2 /\ Len(verify_log) = 2
    /\ verify_log[1].checked /\ verify_log[1].status.error = ERR_TIMEOUT
    /\ ~ all_businesses[1].has_website
    /\ verify_log[2].checked /\ Confirmed(verify_log[2].status)
    /\ all_businesses[2].has_website

\* positions of the collected businesses whose has_website is false
Leads == { i \in DOMAIN all_businesses : ~ all_businesses[i].has_website }

\* C10: at the end of a scan businesses_without_website consists of exactly
\* the collected businesses whose has_website is false, each once, in
\* collection order.
C10_LeadsAreExactlyWithoutWebsite ==
    phase = "done" =>
      /\ Len(businesses_without_website) = Cardinality(Leads)
      /\ \A k \in DOMAIN businesses_without_website :
           \E i \in Leads :
              /\ businesses_without_website[k] = all_businesses[i]
              /\ Cardinality({ j \in Leads : j < i }) = k - 1

C10_Witness ==
    /\ phase = "done" /\ Len(all_businesses) = 2
    /\ all_businesses[1].has_website
    /\ all_businesses[2].website # EmptyUrl /\ ~ all_businesses[2].has_website
    /\ businesses_without_website = <<all_businesses[2]>>

----------------------------------------------------------------------------
(* Properties of the assembled records *)

NoDuplicates(l) == \A i, j \in 1..Len(l) : i # j => l[i] # l[j]
NineDigits(p) == Len(p) = 9 /\ \A i \in 1..Len(p) : p[i] \in Digits

ScanApi == as_scraper = "scan_panoramafirm"
\* the scraper has emitted the record: yielded it, or appended it to its list
Emitted ==
    IF ScanApi THEN as_result = "kept"
    ELSE as_pc \in {"yielded", "done"} /\ as_result # "skipped"

(* C11: the phone of every record a scraper emits is empty or exactly 9     *)
(* digits (country code stripped), whether it came from a tel: link, from   *)
(* card text or from a scan of the page; no raw, partial or formatted phone *)
(* string is stored.                                                        *)
C11_PhoneEmptyOrNineDigits ==
    Emitted => (biz.phone = <<>> \/ NineDigits(biz.phone))

(* C12: the email of every record a scraper emits is empty or has the email *)
(* shape and contains no marker of the spam denylist, whether it came from  *)
(* a mailto: link or from the text scan.                                    *)
C12_EmailEmptyOrValid ==
    Emitted =>
        \/ biz.email = <<>>
        \/ /\ is_valid_email(biz.email)
           /\ ~ \E spam \in SPAM_EMAILS : Contains(text_lower(biz.email), spam)

(* C13: the website of every record a scraper emits is empty or a URL that  *)
(* is_valid_website accepts; a social, directory or marketplace URL is      *)
(* never stored as the website.                                             *)
C13_WebsiteEmptyOrValid ==
    Emitted => (biz.website = EmptyUrl \/ is_valid_website(biz.website))

HasSocial(b) == b.facebook # NoLink \/ b.instagram # NoLink \/ b.linkedin # NoLink
HasContact(b) == b.phone # <<>> \/ b.email # <<>> \/ HasSocial(b)

(* C14: every record retained in the result list has a name and at least    *)
(* one of phone, email or a social link; a name-only record (such as the    *)
(* one built when the detail page cannot be fetched) is never retained, and *)
(* a record is not discarded when a social link other than facebook is its  *)
(* only contact.                                                            *)
C14_RetainedHaveNameAndContact ==
    /\ as_result = "kept" => (biz.name # <<>> /\ HasContact(biz))
    /\ as_result = "dropped" => ~ (biz.name # <<>> /\ HasSocial(biz))

\* the national number a phone string holds, <<>> when it holds none
\* (validators.py is_valid_phone: 9 digits, or 11 with the country code)
Number(s) ==
    LET d == digits_of(s) IN IF Len(d) \in {9, 11} THEN last9(d) ELSE <<>>
StructuredNumber(page) ==
    Number(IF page.tel.href # <<>> THEN page.tel.href ELSE page.tel.text)
\* the assembler opened the detail page and is past its phone step
PhoneFromDetail ==
    /\ as_detail.fetched
    /\ IF ScanApi
       THEN card_phone(as_card) = <<>>
            /\ as_pc \in {"email", "website", "address", "social", "retain", "done"}
       ELSE as_scraper = "panorama_firm" /\ as_pc \in {"yielded", "done"}

(* C16: when the structured telephone field of a detail page and the text   *)
(* of the whole page hold two different valid numbers, the record gets the  *)
(* number of the structured field; the number of the whole-page scan is     *)
(* used only when the structured field yields nothing.                      *)
C16_StructuredPhoneWins ==
    PhoneFromDetail =>
        LET s == StructuredNumber(as_detail)
            w == Number(as_detail.text)
        IN /\ (s # <<>> /\ w # <<>> /\ s # w) => Number(biz.phone) = s
           /\ (w # <<>> /\ s # w /\ Number(biz.phone) = w) => s = <<>>

C16_Witness ==
    /\ PhoneFromDetail /\ ScanApi /\ as_result = "kept"
    /\ StructuredNumber(as_detail) = <<"9", "1", "2", "3", "4", "5", "6", "7", "8">>
    /\ Number(as_detail.text) = <<"6", "0", "1", "2", "0", "2", "3", "0", "3">>
    /\ biz.phone = <<"9", "1", "2", "3", "4", "5", "6", "7", "8">>

\* the api assembler has read card and detail page
DetailRead ==
    /\ ScanApi /\ as_detail.fetched /\ card_phone(as_card) = <<>>
    /\ as_pc \in {"retain", "done"} /\ as_result # "skipped"
\* a field that holds a value keeps it in the next assembly step
FieldsKept ==
    (as_pc \in {"visit", "phone", "email", "website", "address", "social", "retain"}) =>
        /\ biz.phone # <<>> => biz'.phone = biz.phone
        /\ biz.email # <<>> => biz'.email = biz.email
        /\ biz.address # <<>> => biz'.address = biz.address
        /\ biz.website # EmptyUrl => biz'.website = biz.website
        /\ biz.facebook # NoLink => biz'.facebook = biz.facebook
        /\ biz.instagram # NoLink => biz'.instagram = biz.instagram

(* C17: for phone, email, address, website and social links the value of    *)
(* the detail page is preferred over a value found only in the card, and a  *)
(* field that was accepted is not replaced or cleared by a later step.      *)
C17_DetailPreferredAndKept ==
    /\ [](DetailRead /\ clean_text(as_detail.address) # <<>>
            => biz.address = truncate(clean_text(as_detail.address), MaxAddressLen))
    /\ [][FieldsKept]_vars

----------------------------------------------------------------------------

(* Properties of the combined result set *)

\* two candidates that count as the same business
SameBusiness(a, b) ==
    \/ prefix_key(a.name) = prefix_key(b.name)
    \/ a.phone # <<>> /\ a.phone = b.phone
Kept(k) == k \in sb_kept
Read(k) == k \in 1..(sb_i - 1)

(* C15: in the result set of an industry no two accepted records have the   *)
(* same lower-cased 20-character name prefix and no two have the same       *)
(* non-empty phone; of two candidates that share a key the one read first   *)
(* is kept and the later one dropped, whatever the candidates and their     *)
(* order.                                                                   *)
C15_NoDuplicateNamePrefixOrPhone ==
    /\ \A i, j \in 1..Len(sb_all) : i # j => ~ SameBusiness(sb_all[i], sb_all[j])
    /\ \A j, k \in 1..Len(sb_candidates) :
          (j < k /\ Read(k) /\ Kept(j)
           /\ SameBusiness(sb_candidates[j], sb_candidates[k])) => ~ Kept(k)
    /\ Range(sb_all) \subseteq {sb_candidates[k] : k \in sb_kept}

----------------------------------------------------------------------------

(* Properties of the contact extractors *)

IsPhoneCall == ex_fn \in PhoneExtractors
IsEmailCall == ex_fn \in EmailExtractors

(* C18: whatever the text, each string extract_phones returns is exactly 9  *)
(* digits long, occurs once in the list and is not on the spam-phone        *)
(* denylist; in particular nothing shorter than 9 digits is returned.       *)
C18_PhonesNineDigitsNoSpam ==
    IsPhoneCall =>
        \A c \in 1..Len(ex_out) :
            /\ NoDuplicates(ex_out[c])
            /\ \A i \in 1..Len(ex_out[c]) :
                  /\ NineDigits(ex_out[c][i])
                  /\ ex_out[c][i] \notin SPAM_PHONES

\* the patterns the extractor under test applies
PatternsOf(fn) ==
    IF fn = "validators.extract_phones" THEN validators_patterns ELSE scan_patterns
\* the normalized candidates of a text in the order they are discovered
Discovered(fn, text) ==
    LET ms == matches_of(PatternsOf(fn), text)
    IN [i \in 1..Len(ms) |-> last9(digits_of(ms[i]))]
FirstAt(x, s) == CHOOSE i \in 1..Len(s) : s[i] = x /\ \A j \in 1..(i - 1) : s[j] # x
\* l lists elements of s, each once, in the order of their first occurrence
InDiscoveryOrder(l, s) ==
    /\ NoDuplicates(l)
    /\ Range(l) \subseteq Range(s)
    /\ \A i, j \in 1..Len(l) : i < j => FirstAt(l[i], s) < FirstAt(l[j], s)

(* C19: extract_phones lists the distinct normalized candidates in the      *)
(* order of their first discovery (pattern list order, then position in the *)
(* text), so any two calls on the same text return the same list.           *)
C19_PhonesInDiscoveryOrder ==
    IsPhoneCall =>
        /\ \A c \in 1..Len(ex_out) :
              InDiscoveryOrder(ex_out[c], Discovered(ex_fn, ex_text))
        /\ \A c, d \in 1..Len(ex_out) : ex_out[c] = ex_out[d]

\* the order in which the addresses of l occur in the lower-cased text
EmailsInDiscoveryOrder(l, text) ==
    InDiscoveryOrder(l, findall_emails(text_lower(text)))

(* C20: whatever the text, extract_emails returns at most 3 addresses, in   *)
(* discovery order, each lower case, of the shape local@domain.tld,         *)
(* pairwise distinct, and none containing a spam marker of the denylist.    *)
C20_EmailsCappedLowerValid ==
    IsEmailCall =>
        \A c \in 1..Len(ex_out) :
            /\ Len(ex_out[c]) <= MaxReturnedEmails
            /\ EmailsInDiscoveryOrder(ex_out[c], ex_text)
            /\ \A i \in 1..Len(ex_out[c]) :
                  /\ ex_out[c][i] = text_lower(ex_out[c][i])
                  /\ is_valid_email(ex_out[c][i])
                  /\ ~ \E spam \in SPAM_EMAILS : Contains(ex_out[c][i], spam)

(* Properties of the social-link extractor *)

IsSocialCall == ex_fn \in SocialExtractors
PlatformSite(platform) ==
    IF platform = "facebook" THEN <<"f", "a", "c", "e", "b", "o", "o", "k", ".", "c", "o", "m">> ELSE <<"i", "n", "s", "t", "a", "g", "r", "a", "m", ".", "c", "o", "m">>
NonBusiness(platform) ==
    IF platform = "facebook" THEN FACEBOOK_EXCLUDED ELSE INSTAGRAM_EXCLUDED
\* the handle of the profile link written at text[i]
HandleAt(text, i, site) ==
    SubSeq(text, i + Len(site) + 1, handle_end(text, i, site) - 1)
\* where the links to the platform with a genuine handle are written
GenuineAt(text, platform) ==
    { i \in 1..Len(text) :
        /\ handle_end(text, i, PlatformSite(platform)) > 0
        /\ text_lower(HandleAt(text, i, PlatformSite(platform)))
             \notin NonBusiness(platform) }
FirstGenuine(text, platform) ==
    IF GenuineAt(text, platform) = {} THEN <<>>
    ELSE <<"h", "t", "t", "p", "s", ":", "/", "/">> \o PlatformSite(platform) \o <<"/">>
         \o HandleAt(text, Min(GenuineAt(text, platform)), PlatformSite(platform))

(* C21: for facebook and for instagram the extractor returns the first link *)
(* of the document whose lower-cased handle is not a non-business path      *)
(* segment of the platform, written as https://<platform-domain>/<handle>;  *)
(* an earlier sharer, share, pages or profile.php link is neither returned  *)
(* nor hides a later genuine handle, and the field is empty when the        *)
(* document has no genuine link.                                            *)
C21_FirstGenuineProfile ==
    IsSocialCall =>
        \A c \in 1..Len(ex_out) :
            /\ ex_out[c].facebook = FirstGenuine(ex_text, "facebook")
            /\ ex_out[c].instagram = FirstGenuine(ex_text, "instagram")

----------------------------------------------------------------------------

(* Properties of is_valid_website *)

IsValidWebsiteCall == ex_fn = "validators.is_valid_website"
\* the host of the url; for an input without scheme it is the front of the
\* first path segment
HostDenylisted(u) == \E i \in DOMAIN u.host : u.host[i] \in excluded_domains
DenylistedOnlyInPath(u) ==
    /\ ~ HostDenylisted(u)
    /\ \E i \in DOMAIN u.path : u.path[i] \in excluded_domains

(* C22: is_valid_website returns false for the empty input and otherwise     *)
(* false exactly when the host of the url (the first path segment of an      *)
(* input without scheme) contains a string of the denylist; a denylisted     *)
(* string in the path or query alone does not reject the url.                *)
C22_RejectsExactlyDenylistedHosts ==
    IsValidWebsiteCall =>
        \A c \in 1..Len(ex_out) :
            /\ ex_text = EmptyUrl => ex_out[c] = FALSE
            /\ ex_text # EmptyUrl => (ex_out[c] = FALSE <=> HostDenylisted(ex_text))
            /\ DenylistedOnlyInPath(ex_text) => ex_out[c] = TRUE

----------------------------------------------------------------------------

(* Properties of a run seen from the network *)

(* C23: between any two consecutive outbound fetches of a run (listing      *)
(* page, detail page, liveness check) there is a randomized delay: no two   *)
(* fetches are issued back to back.                                         *)
C23_DelayBetweenFetches == ~ net_back_to_back

(* C30: one search_businesses call fetches at most 5 listing pages and      *)
(* yields at most max_results businesses, whatever the listing pages hold,  *)
(* also when every page has a next-page link and no link yields a business. *)
C30_AtMostFivePages ==
    /\ pf_fetched <= PageLimit
    /\ pf_results_count <= pf_max

----------------------------------------------------------------------------

(* Further properties of one check_website call *)

(* C26: every WebsiteStatus that check_website returns, on every path, the  *)
(* plain-HTTP retry after a TLS failure included, is consistent:            *)
(* is_company_site implies is_active, is_active implies exists, and the     *)
(* error is empty exactly when exists, is_active and is_company_site are    *)
(* all true.                                                                *)
C26_StatusConsistent ==
    (Returned /\ cw_result.kind = "status") =>
        /\ cw_result.is_company_site => cw_result.is_active
        /\ cw_result.is_active => cw_result.exists
        /\ cw_result.error = "" <=> Flags(cw_result) = <<TRUE, TRUE, TRUE>>

(* C27: for a url that passes the validity classifier and whose host name   *)
(* resolves in DNS, with or without an explicit port, check_website never   *)
(* returns the DNS-failure outcome and issues the HTTP GET.                 *)
C27_ResolvingHostIsFetched ==
    (Returned /\ PassesClassifier /\ HostResolves(Normalized)) =>
        /\ cw_result.error # ERR_DNS
        /\ Gets # {}

----------------------------------------------------------------------------

(* Further properties of a scan *)

\* everything collected so far
Collected == all_businesses \o industry_businesses

(* C25: when a search_businesses call raises, at any point of its           *)
(* iteration, the scan is not aborted: the records collected before the     *)
(* failure are kept, the scan goes on with the next source, or with the     *)
(* first source of the next industry, and after the last one the run enters *)
(* the verification or the filter phase.                                    *)
C25_FailedSourceDoesNotAbort ==
    [][SearchRaises =>
        /\ all_businesses' \o industry_businesses' = Collected
        /\ IF src < Len(sources)
           THEN phase' = "scan" /\ ind' = ind /\ src' = src + 1
           ELSE IF ind < MaxIndustries
           THEN phase' = "scan" /\ ind' = ind + 1 /\ src' = 1
           ELSE phase' \in {"verify", "filter"}]_vars

\* a search raised after it had yielded a business, and the run went through
\* the verification to its end with that business
C25_Witness ==
    /\ search_raised
    /\ phase = "done"
    /\ all_businesses # <<>>
    /\ verify_log # <<>>

----------------------------------------------------------------------------

----------------------------------------------------------------------------

(* Properties of the scan jobs of the web application *)

\* the fields of a job that the polling handlers show
JobFields(j) == <<j.status, j.progress, j.businesses, j.businesses_without_website, j.error, j.output_file>>
Handlers == {"start_scan", "scan_status", "scan_results", "download_results"}

StatusMoves == {<<"none", "pending">>, <<"pending", "running">>, <<"running", "completed">>, <<"running", "error">>}

(* C28: the status of a ScanJob only moves pending -> running -> completed  *)
(* or pending -> running -> error, completed and error are never left, and   *)
(* over the whole life of the job the progress never decreases and stays    *)
(* within 0..100, for any number of industries and of collected businesses. *)
C28_StatusAndProgress ==
    [][\A id \in JobIds :
          /\ scan_jobs'[id].status # scan_jobs[id].status
             => <<scan_jobs[id].status, scan_jobs'[id].status>> \in StatusMoves
          /\ scan_jobs'[id].progress >= scan_jobs[id].progress
          /\ scan_jobs'[id].progress \in 0..FullProgress]_vars

\* one job completed after a verification loop that reached i = 5, the other
\* ended in the except clause
C28_Witness ==
    \E a, b \in JobIds :
        /\ scan_jobs[a].status = "completed"
        /\ scan_jobs[a].progress = FullProgress
        /\ scan_jobs[a].businesses > ProgressEvery
        /\ scan_jobs[b].status = "error"
        /\ scan_jobs[b].progress = ExportProgress

(* C29: whenever a status request that runs concurrently with run_scan      *)
(* observes status "completed", it also observes progress 100, a completed_at *)
(* that is set, and the final businesses_without_website and output_file:   *)
(* the completed status is never visible before the rest of the final state. *)
C29_CompletedSeenWithFinalState ==
    reply.kind = "scan_status" /\ reply.code = 200 /\ reply.body.status = "completed"
    => /\ reply.body.progress = FullProgress
       /\ reply.body.completed_at
       /\ reply.body.without_website = scan_jobs[reply.job_id].businesses_without_website
       /\ reply.body.output_file = scan_jobs[reply.job_id].output_file
       /\ (reply.body.output_file # "") = (reply.body.without_website > 0)

====
